---------------------------- MODULE Spec2Model ----------------------------
(***************************************************************************)
(* A model of operational_analysis/methods/plant_analysis_v3.py, the       *)
(* MonteCarloAEP engine: construction (validation and the base operating   *)
(* table), the long-term loss baseline, the Monte Carlo sampler, the       *)
(* outlier-filter cache, the regression and the simulation loop.           *)
(*                                                                         *)
(* Numbers.  TLC has integers only, so every float of the program is kept  *)
(* in a fixed unit:                                                        *)
(*   energy, losses (GWh)      whole energy units                          *)
(*   wind speed                whole m/s                                   *)
(*   loss fractions (_pct)     1/PctScale (tenths of a percent), truncated *)
(*   bias draws                1/BiasScale (steps of 5%)                   *)
(*   filter fractions          whole percent (the program divides the      *)
(*                             drawn integer by 100.)                      *)
(* A cell of the table that can be non-finite is NaN or Fin(v).            *)
(***************************************************************************)
EXTENDS Integers, Sequences, FiniteSets, TLC

VARIABLES
    pc,                 \* where the caller is: "new", "idle", "ctor_error", "losses", "setup", "loop"
    error,              \* the exception the last operation raised, "none" when it returned
    args,               \* the constructor's arguments (self.time_resolution, self.reg_model, ...)
    plant,              \* self._plant : the plant data the engine was given
    steps,              \* instrumentation: the steps executed by the operation in progress
    monthly_daily,      \* self._monthly_daily.df : the base operating table
    reanalysis_monthly_daily, \* self._reanalysis_monthly_daily
    reanalysis_por_avg, \* self._reanalysis_por_avg
    outlier_filtering,  \* self.outlier_filtering : the memo dictionary
    long_term_losses,   \* self.long_term_losses
    num_sim,            \* self.num_sim
    reanal_subset,      \* self.reanal_subset
    mc,                 \* the arrays drawn by setup_monte_carlo_inputs (self._mc_*)
    loop,               \* the locals of run_AEP_monte_carlo: n and the four output arrays
    results,            \* self.results
    npState,            \* the state of numpy's global generator (np.random)
    pyState,            \* the state of Python's global generator (random)
    probe               \* instrumentation of calls made from outside run(): seeds, filter calls, wind directions

vars == <<pc, error, args, plant, steps, monthly_daily, reanalysis_monthly_daily,
          reanalysis_por_avg, outlier_filtering, long_term_losses, num_sim,
          reanal_subset, mc, loop, results, npState, pyState, probe>>

-----------------------------------------------------------------------------
(* Bounds of the model *)

\* longest monthly meter series of a plant
MaxMonths == 13

\* most simulations of one run
MaxSim == 2

\* largest mean wind component (m/s) the wind direction is derived from
WindMax == 3

\* most calls of run() on one engine
MaxRuns == 2

\* direct calls of run_regression made on one engine
MaxCalls == 1

-----------------------------------------------------------------------------
(* Floats *)

NaN == <<>>
Fin(v) == <<v>>
isfinite(x) == x # NaN
Val(x) == x[1]

PctScale == 10 * 100
BiasScale == 4 * 5

\* a / b of two finite cells, as np.divide gives it; a zero divisor gives a non-finite result
Divide(a, b, scale) ==
    IF a = NaN \/ b = NaN \/ Val(b) = 0 THEN NaN
    ELSE Fin((Val(a) * scale) \div Val(b))

RECURSIVE SumSeq(_)
SumSeq(s) == IF s = <<>> THEN 0 ELSE Head(s) + SumSeq(Tail(s))

\* a sequence given as a function on 1..n, as an explicit sequence
AsSeq(f, n) == SubSeq(f, 1, n)

-----------------------------------------------------------------------------
(* The calendar.  A month is numbered from January of a leap year (ordinal *)
(* 0), a day from 1 January of that year.                                  *)

IsLeap(y) == y % 4 = 0

daysinmonth(y, m) ==
    CASE m = 2 -> IF IsLeap(y) THEN 29 ELSE 28
      [] m \in {4, 6, 9, 11} -> 30
      [] OTHER -> 31

MonthYear(o) == o \div 12
MonthOfYear(o) == (o % 12) + 1

DaysInYear(y) == IF IsLeap(y) THEN 366 ELSE 365

\* days of the four-year cycle before year y of the cycle
DaysBeforeYear(y) == IF y = 0 THEN 0 ELSE 366 + 365 * (y - 1)

RECURSIVE DaysBeforeMonth(_, _)
DaysBeforeMonth(y, m) == IF m = 1 THEN 0 ELSE DaysBeforeMonth(y, m - 1) + daysinmonth(y, m - 1)

DayYear(d) ==
    LET r == d % 1461
    IN  4 * (d \div 1461) + (IF r < 366 THEN 0 ELSE 1 + ((r - 366) \div 365))

DayOfYear(d) == (d % 1461) - DaysBeforeYear(DayYear(d) % 4)

DayMonth(d) ==
    LET y == DayYear(d)
        n == DayOfYear(d)
    IN  CHOOSE m \in 1..12 : DaysBeforeMonth(y, m) <= n /\ n < DaysBeforeMonth(y, m) + daysinmonth(y, m)

DayOfMonth(d) == DayOfYear(d) - DaysBeforeMonth(DayYear(d), DayMonth(d)) + 1

\* the timestamp of a period: its calendar month and (daily) its day of the month
Timestamp(tr, o) ==
    IF tr = "M" THEN [month |-> MonthOfYear(o), day |-> 1]
    ELSE [month |-> DayMonth(o), day |-> DayOfMonth(o)]

\* the key a row is grouped by: index.month, or (index.month, index.day)
CalendarKey(tr, r) == IF tr = "M" THEN r.month ELSE <<r.month, r.day>>

\* the calendar month of a period
CalendarMonth(tr, o) == IF tr = "M" THEN MonthOfYear(o) ELSE DayMonth(o)

-----------------------------------------------------------------------------
(* The plant data (the PlantData object handed to the constructor).  The   *)
(* raw series are already at the period's resolution: resampling and the   *)
(* helpers tm.percent_nan, tm.num_days are outside this file.  A plant is  *)
(* a record                                                                *)
(*   products     names of plant._reanalysis._product                      *)
(*   meter_start  first period of the meter series, meter_len its length   *)
(*   meter_freq   plant._meter_freq                                        *)
(*   curtail_len  periods (from meter_start) the loss series covers        *)
(*   rean_start   first period with reanalysis data, rean_len its length   *)
(*   hole         [product, at]: that product has no value at that period  *)
(*   short        [product, from]: that product has no value before that   *)
(*                period                                                   *)
(*   partial      which of the "first", "second", "last" months were       *)
(*                reported partly                                          *)
(*   nan_rows     periods whose meter data had 2% of NaN                   *)
(*   loss_base, loss_step  the reported losses, in percent of gross        *)
(*   capacity     plant._plant_capacity                                    *)
(***************************************************************************)

\* the wind at the site, m/s, and what each reanalysis product reports of it
SiteWind(o) == 4 + ((o * 3) % 7)

ProductBias(p, o) ==
    CASE p = "ncep2" -> 0
      [] p = "merra2" -> o % 2
      [] p = "erai" -> (o + 1) % 2
      \* a product with two spikes out of the physical range and a sensor stuck at 5 m/s
      [] p = "jra55" -> (CASE o = 14 -> 41 - SiteWind(o)
                           [] o = 21 -> (-1) - SiteWind(o)
                           [] o \in {16, 18, 19} -> 5 - SiteWind(o)
                           [] OTHER -> 0)
      [] OTHER -> 1

\* the product reports nothing for the period
Missing(pl, p, o) ==
    \/ pl.hole.product = p /\ pl.hole.at = o
    \/ pl.short.product = p /\ o < pl.short.from

\* the density-corrected wind speed of a period (mt.air_density_adjusted_wind_speed, averaged)
ws_dens_corr(pl, p, o) ==
    IF Missing(pl, p, o) THEN NaN ELSE Fin(SiteWind(o) + ProductBias(p, o))

temperature_K(pl, p, o) ==
    IF Missing(pl, p, o) THEN NaN ELSE Fin(280 + (o % 5))

\* the mean wind vector of a period: one of the eight compass directions, by calendar month
WindVector(tr, o) ==
    LET d == CalendarMonth(tr, o) % 8
    IN  CASE d = 0 -> <<0, 1>>
          [] d = 1 -> <<1, 0>>
          [] d = 2 -> <<0, -1>>
          [] d = 3 -> <<-1, 0>>
          [] d = 4 -> <<1, 1>>
          [] d = 5 -> <<1, -1>>
          [] d = 6 -> <<-1, -1>>
          [] OTHER -> <<-1, 1>>

GrossPerWs(tr) == IF tr = "M" THEN 100 ELSE 10

KwhPerGwh == 1000 * 1000

\* the plant's true gross energy of a period (energy units) and its raw series (kWh)
SiteGross(tr, o) == GrossPerWs(tr) * SiteWind(o)
SiteAvailability(pl, tr, o) == (SiteGross(tr, o) * (pl.loss_base + pl.loss_step * (o % 3))) \div 100
SiteCurtailment(pl, tr, o) == (SiteGross(tr, o) * (pl.loss_step \div 2) * (o % 2)) \div 100
availability_kwh(pl, tr, o) == SiteAvailability(pl, tr, o) * KwhPerGwh
curtailment_kwh(pl, tr, o) == SiteCurtailment(pl, tr, o) * KwhPerGwh
energy_kwh(pl, tr, o) ==
    (SiteGross(tr, o) - SiteAvailability(pl, tr, o) - SiteCurtailment(pl, tr, o)) * KwhPerGwh

MeterPeriods(pl) == [i \in 1..pl.meter_len |-> pl.meter_start + i - 1]
CurtailCovers(pl, o) == o < pl.meter_start + pl.curtail_len
ReanalysisCovers(pl, o) == pl.rean_start <= o /\ o < pl.rean_start + pl.rean_len

\* tm.num_days of a month's raw data
num_days(pl, o) ==
    LET full == daysinmonth(MonthYear(o), MonthOfYear(o))
    IN  IF ("first" \in pl.partial /\ o = pl.meter_start)
           \/ ("second" \in pl.partial /\ o = pl.meter_start + 1)
           \/ ("last" \in pl.partial /\ o = pl.meter_start + pl.meter_len - 1)
        THEN full - 10 ELSE full

\* tm.percent_nan of a period's raw data, in 1/1000
percent_nan(pl, o) == IF o \in pl.nan_rows THEN 20 ELSE 0

-----------------------------------------------------------------------------
(* Wind direction *)

\* np.rad2deg(np.arctan2(y, x)) of a vector on one of the eight compass directions (+0.0 zeros)
rad2deg_arctan2(y, x) ==
    CASE y = 0 /\ x >= 0 -> 0
      [] y = 0 /\ x < 0 -> 180
      [] y > 0 /\ x = 0 -> 90
      [] y < 0 /\ x = 0 -> -90
      [] y > 0 /\ x = y -> 45
      [] y > 0 /\ x = -y -> 135
      [] y < 0 /\ x = -y -> -45
      [] y < 0 /\ x = y -> -135

\* np.rad2deg(np.arctan2(-u, v)): negating a zero u gives -0.0, whose angle against a negative v is -180
rad2deg_arctan2_neg(u, v) ==
    IF u = 0 THEN (IF v < 0 THEN -180 ELSE 0) ELSE rad2deg_arctan2(-u, v)

\* the direction formula without the negation of u
wd_not_negated(u_avg, v_avg) == 180 - rad2deg_arctan2(u_avg, v_avg)

\* the direction stored by process_reanalysis_data
wd_aggregation(u_avg, v_avg) == 180 - rad2deg_arctan2_neg(u_avg, v_avg)

\* the direction derived by sample_long_term_reanalysis
wd_long_term(u_monthly_daily, v_monthly_daily) == 180 - rad2deg_arctan2_neg(u_monthly_daily, v_monthly_daily)

-----------------------------------------------------------------------------
(* Construction: validation *)

\* Validate without its last check: a machine-learning model passes at monthly resolution
Validate_NoMonthlyCheck(a) ==
    IF a.time_resolution \notin {"M", "D"} THEN "time_resolution"
    ELSE IF a.reg_temperature \notin {"Y", "N"} THEN "reg_temperature"
    ELSE IF a.reg_winddirection \notin {"Y", "N"} THEN "reg_winddirection"
    ELSE IF a.reg_model \notin {"lin", "gbm", "etr", "gam"} THEN "reg_model"
    ELSE "ok"

\* a validation that also rejects a range whose low bound exceeds its high bound
Validate_WithRanges(a) ==
    IF \/ a.uncertainty_windiness[1] > a.uncertainty_windiness[2]
       \/ a.uncertainty_loss_max[1] > a.uncertainty_loss_max[2]
       \/ a.uncertainty_max_power_filter[1] > a.uncertainty_max_power_filter[2]
    THEN "uncertainty_range"
    ELSE Validate_NoMonthlyCheck(a)

\* the first check of __init__ that fails, "ok" when none does
Validate(a) ==
    IF a.time_resolution \notin {"M", "D"} THEN "time_resolution"
    ELSE IF a.reg_temperature \notin {"Y", "N"} THEN "reg_temperature"
    ELSE IF a.reg_winddirection \notin {"Y", "N"} THEN "reg_winddirection"
    ELSE IF a.reg_model \notin {"lin", "gbm", "etr", "gam"} THEN "reg_model"
    ELSE IF a.time_resolution = "M" /\ a.reg_model # "lin" THEN "monthly_model"
    ELSE "ok"

-----------------------------------------------------------------------------
(* Construction: the base operating table *)

process_revenue_meter_energy(pl, a) ==
    LET tr == a.time_resolution
    IN  [i \in 1..pl.meter_len |->
            LET o == pl.meter_start + i - 1
                common == [ord |-> o] @@ Timestamp(tr, o) @@
                          [energy_gwh |-> energy_kwh(pl, tr, o) \div KwhPerGwh,
                           energy_nan_perc |-> percent_nan(pl, o)]
                expected == daysinmonth(MonthYear(o), MonthOfYear(o))
            IN  IF tr = "M"
                THEN common @@ [num_days_expected |-> expected,
                                num_days_actual |-> IF pl.meter_freq \in {"1MS", "1M"}
                                                    THEN expected ELSE num_days(pl, o)]
                ELSE common]

\* un.compute_gross_energy(net, avail, curt, 'energy', 'energy')
compute_gross_energy(net, avail, curt) ==
    IF avail = NaN \/ curt = NaN THEN NaN ELSE Fin(net + Val(avail) + Val(curt))

process_loss_estimates(df, pl, a) ==
    LET tr == a.time_resolution
    IN  [i \in 1..Len(df) |->
            LET o == df[i].ord
                covered == CurtailCovers(pl, o)
                avail == IF covered THEN Fin(availability_kwh(pl, tr, o) \div KwhPerGwh) ELSE NaN
                curt == IF covered THEN Fin(curtailment_kwh(pl, tr, o) \div KwhPerGwh) ELSE NaN
                gross == compute_gross_energy(df[i].energy_gwh, avail, curt)
                \* a period the loss series does not reach has no NaN percentage, and NaN > x is False
                loss_nan == covered /\ percent_nan(pl, o) > a.uncertainty_nan_energy
            IN  df[i] @@ [availability_gwh |-> avail,
                          curtailment_gwh |-> curt,
                          gross_energy_gwh |-> gross,
                          availability_pct |-> Divide(avail, gross, PctScale),
                          curtailment_pct |-> Divide(curt, gross, PctScale),
                          nan_flag |-> (df[i].energy_nan_perc > a.uncertainty_nan_energy) \/ loss_nan,
                          availability_typical |-> TRUE,
                          curtailment_typical |-> TRUE,
                          combined_loss_valid |-> TRUE]]

\* the columns process_reanalysis_data writes for one product
ProductColumns(a, p) ==
    {<<p, "">>}
    \cup (IF a.reg_temperature = "Y" THEN {<<p, "_temp">>} ELSE {})
    \cup (IF a.reg_winddirection = "Y" THEN {<<p, "_u">>, <<p, "_v">>, <<p, "_wd">>} ELSE {})

ReanalysisColumns(a, pl) == UNION {ProductColumns(a, p) : p \in pl.products}

\* one cell of self._reanalysis_monthly_daily
ReanalysisCell(a, pl, col, o) ==
    LET p == col[1]
        sfx == col[2]
        missing == Missing(pl, p, o)
        uv == WindVector(a.time_resolution, o)
    IN  CASE sfx = "" -> ws_dens_corr(pl, p, o)
          [] sfx = "_temp" -> temperature_K(pl, p, o)
          [] sfx = "_u" -> IF missing THEN NaN ELSE Fin(uv[1])
          [] sfx = "_v" -> IF missing THEN NaN ELSE Fin(uv[2])
          [] sfx = "_wd" -> IF missing THEN NaN ELSE Fin(wd_aggregation(uv[1], uv[2]))

\* self._reanalysis_monthly_daily: the periods with reanalysis data and, per column, their values
process_reanalysis_data(a, pl) ==
    [start |-> pl.rean_start,
     len |-> pl.rean_len,
     cols |-> [col \in ReanalysisColumns(a, pl) |->
                 AsSeq([i \in 1..pl.rean_len |-> ReanalysisCell(a, pl, col, pl.rean_start + i - 1)],
                       pl.rean_len)]]

ReanalysisAt(rean, col, o) ==
    LET i == o - rean.start + 1
    IN  IF i >= 1 /\ i <= rean.len THEN rean.cols[col][i] ELSE NaN

\* self._monthly_daily.df.join(self._reanalysis_monthly_daily)
JoinReanalysis(df, rean) ==
    [i \in 1..Len(df) |->
        df[i] @@ [rean |-> [col \in DOMAIN rean.cols |-> ReanalysisAt(rean, col, df[i].ord)]]]

\* a trimming that goes on to examine the row that has become the first
trim_monthly_df_Repeated(df) ==
    IF df = <<>> THEN [error |-> "IndexError", df |-> df]
    ELSE LET last == df[Len(df)]
             partial(r) == r.num_days_expected # r.num_days_actual
             d1 == IF partial(df[1]) THEN Tail(df) ELSE df
             d2 == IF d1 # <<>> /\ partial(df[1]) /\ partial(d1[1]) THEN Tail(d1) ELSE d1
         IN  IF \A i \in 1..Len(d2) : d2[i].ord # last.ord
             THEN [error |-> "KeyError", df |-> d2]
             ELSE [error |-> "none",
                   df |-> IF partial(last) THEN SubSeq(d2, 1, Len(d2) - 1) ELSE d2]

\* trim_monthly_df: the labels of the first and of the last row are taken before the loop
trim_monthly_df(df) ==
    IF df = <<>> THEN [error |-> "IndexError", df |-> df]
    ELSE LET first == df[1]
             last == df[Len(df)]
             partial(r) == r.num_days_expected # r.num_days_actual
             d1 == IF partial(first) THEN Tail(df) ELSE df
         IN  IF \A i \in 1..Len(d1) : d1[i].ord # last.ord
             THEN [error |-> "KeyError", df |-> d1]
             ELSE [error |-> "none",
                   df |-> IF partial(last) THEN SubSeq(d1, 1, Len(d1) - 1) ELSE d1]

\* the columns the constructor requires to be finite, beside gross_energy_gwh
FiniteChecked == {"ncep2", "merra2", "erai"}

\* the rows the constructor keeps
DropNonFinite(df) ==
    SelectSeq(df, LAMBDA r : isfinite(r.gross_energy_gwh)
                             /\ \A p \in FiniteChecked : isfinite(r.rean[<<p, "">>]))

\* calculate_monthly_daily_dataframe: the table, the reanalysis frame, the steps run, the error raised
calculate_monthly_daily_dataframe(a, pl) ==
    LET rean == process_reanalysis_data(a, pl)
        meter == AsSeq(process_revenue_meter_energy(pl, a), pl.meter_len)
        losses == AsSeq(process_loss_estimates(meter, pl, a), pl.meter_len)
        joined == AsSeq(JoinReanalysis(losses, rean), pl.meter_len)
        three == <<"process_revenue_meter_energy", "process_loss_estimates", "process_reanalysis_data">>
        trimmed == IF a.time_resolution = "M" THEN trim_monthly_df(joined)
                   ELSE [error |-> "none", df |-> joined]
        ran == IF a.time_resolution = "M" THEN Append(three, "trim_monthly_df") ELSE three
    IN  IF trimmed.error # "none"
        THEN [error |-> trimmed.error, df |-> trimmed.df, rean |-> rean, steps |-> ran]
        ELSE IF ~(FiniteChecked \subseteq pl.products)
        THEN [error |-> "AttributeError", df |-> trimmed.df, rean |-> rean, steps |-> ran]
        ELSE [error |-> "none", df |-> DropNonFinite(trimmed.df), rean |-> rean,
              steps |-> Append(ran, "drop_non_finite")]

TableKeys(df, tr) == {CalendarKey(tr, df[i]) : i \in 1..Len(df)}

\* the union of two groupings
MergeGroups(l, r) ==
    [key \in DOMAIN l \cup DOMAIN r |->
        (IF key \in DOMAIN l THEN l[key] ELSE {}) \cup (IF key \in DOMAIN r THEN r[key] ELSE {})]

RECURSIVE GroupRange(_, _, _, _)
GroupRange(df, tr, lo, hi) ==
    IF lo = hi THEN (CalendarKey(tr, df[lo]) :> {lo})
    ELSE LET mid == (lo + hi) \div 2
         IN  MergeGroups(GroupRange(df, tr, lo, mid), GroupRange(df, tr, mid + 1, hi))

\* groupby(key): the rows of every calendar key present
RowGroups(df, tr) == IF df = <<>> THEN <<>> ELSE GroupRange(df, tr, 1, Len(df))

RECURSIVE SumCells(_, _, _)
SumCells(df, col, idx) ==
    IF idx = {} THEN 0
    ELSE LET i == CHOOSE j \in idx : TRUE
         IN  Val(df[i].rean[col]) + SumCells(df, col, idx \ {i})

\* .mean() of one column over the rows of a group: NaN cells are skipped, no value gives NaN
GroupMean(df, rows, col) ==
    LET idx == {i \in rows : isfinite(df[i].rean[col])}
    IN  IF idx = {} THEN NaN ELSE Fin(SumCells(df, col, idx) \div Cardinality(idx))

\* self._reanalysis_por_avg
ReanalysisPorAvg(df, tr) ==
    IF df = <<>> THEN <<>>
    ELSE LET groups == RowGroups(df, tr)
         IN  [key \in DOMAIN groups |->
                [col \in DOMAIN df[1].rean |-> GroupMean(df, groups[key], col)]]

-----------------------------------------------------------------------------
(* The engine before construction *)

NoArgs == [time_resolution |-> "none"]
NoLosses == <<>>
NoSamples == <<>>
NoLoop == <<>>
NoResults == <<>>
NoProbe == <<>>

Unconstructed ==
    /\ pc = "new"
    /\ error = "none"
    /\ args = NoArgs
    /\ steps = <<>>
    /\ monthly_daily = <<>>
    /\ reanalysis_monthly_daily = <<>>
    /\ reanalysis_por_avg = <<>>
    /\ outlier_filtering = <<>>
    /\ long_term_losses = NoLosses
    /\ num_sim = 0
    /\ reanal_subset = <<>>
    /\ mc = NoSamples
    /\ loop = NoLoop
    /\ results = NoResults

\* MonteCarloAEP(plant, ...)
Construct(a) ==
    /\ pc = "new"
    /\ args' = a
    \* (the table is computed once, and only when validation passes)
    /\ \E built \in {IF Validate(a) = "ok" THEN calculate_monthly_daily_dataframe(a, plant) ELSE <<>>} :
           LET v == Validate(a)
           IN
           IF v # "ok"
           THEN /\ pc' = "ctor_error"
                /\ error' = v
                /\ UNCHANGED <<steps, monthly_daily, reanalysis_monthly_daily, reanalysis_por_avg>>
           ELSE /\ steps' = built.steps
                /\ monthly_daily' = built.df
                /\ reanalysis_monthly_daily' = built.rean
                /\ IF built.error # "none"
                   THEN /\ pc' = "ctor_error"
                        /\ error' = built.error
                        /\ UNCHANGED reanalysis_por_avg
                   ELSE /\ pc' = "idle"
                        /\ error' = "none"
                        /\ reanalysis_por_avg' = ReanalysisPorAvg(built.df, a.time_resolution)
    /\ UNCHANGED <<plant, outlier_filtering, long_term_losses, num_sim, reanal_subset,
                   mc, loop, results, npState, pyState, probe>>

-----------------------------------------------------------------------------
(* The long-term loss baseline *)

\* self.num_days_lt and days_year_lt, in quarters of a day
NumDaysLt4 == <<124, 113, 124, 120, 124, 120, 124, 124, 120, 124, 120, 124>>
DaysYearLt4 == 1461

\* a coverage check that asks for one calendar key less
CalendarKeysRequired_Short(tr) == IF tr = "M" THEN 11 ELSE 365

\* the number of groups the coverage check requires
CalendarKeysRequired(tr) == IF tr = "M" THEN 12 ELSE 366

\* the groups of the rows flagged by `flag`: the calendar keys with at least one such row
TypicalGroups(df, tr, flag) ==
    LET groups == RowGroups(df, tr)
        kept == [key \in DOMAIN groups |-> {i \in groups[key] : df[i][flag]}]
    IN  [key \in {k \in DOMAIN groups : kept[k] # {}} |-> kept[key]]

RECURSIVE SumColumn(_, _, _)
SumColumn(df, col, idx) ==
    IF idx = {} THEN 0
    ELSE LET i == CHOOSE j \in idx : TRUE
         IN  Val(df[i][col]) + SumColumn(df, col, idx \ {i})

\* .mean() of a column of the table over a group of rows
ColumnMean(df, rows, col) ==
    LET idx == {i \in rows : isfinite(df[i][col])}
    IN  IF idx = {} THEN NaN ELSE Fin(SumColumn(df, col, idx) \div Cardinality(idx))

RECURSIVE SumOver(_, _)
\* the sum of f over the set keys; NaN entries are skipped, as Series.sum() does
SumOver(f, keys) ==
    IF keys = {} THEN 0
    ELSE LET k == CHOOSE x \in keys : TRUE
         IN  (IF isfinite(f[k]) THEN Val(f[k]) ELSE 0) + SumOver(f, keys \ {k})

\* an annualization that gives every calendar month the same weight
AnnualLoss_EqualWeights(df, tr, groups, col) ==
    LET mean == [key \in DOMAIN groups |-> ColumnMean(df, groups[key], col)]
    IN  SumOver(mean, DOMAIN groups) \div 12

\* the annualized loss of one column, from the means of its groups
AnnualLoss(df, tr, groups, col) ==
    LET mean == [key \in DOMAIN groups |-> ColumnMean(df, groups[key], col)]
    IN  IF tr = "M"
        THEN LET weighted == [m \in DOMAIN groups |->
                                 IF isfinite(mean[m]) THEN Fin(Val(mean[m]) * NumDaysLt4[m]) ELSE NaN]
             IN  SumOver(weighted, DOMAIN groups) \div DaysYearLt4
        ELSE LET bymonth == [m \in 1..12 |->
                                Fin(SumOver(mean, {k \in DOMAIN groups : k[1] = m}))]
             IN  (4 * SumOver(bymonth, 1..12)) \div DaysYearLt4

\* a calculate_long_term_losses without the coverage checks
calculate_long_term_losses_NoCoverageCheck(df, tr) ==
    LET avail == TypicalGroups(df, tr, "availability_typical")
        curt == TypicalGroups(df, tr, "curtailment_typical")
    IN  [error |-> "none",
         value |-> <<AnnualLoss(df, tr, avail, "availability_pct"),
                     AnnualLoss(df, tr, curt, "curtailment_pct")>>]

\* calculate_long_term_losses: the error raised, and the pair assigned when none is
calculate_long_term_losses(df, tr) ==
    LET avail == TypicalGroups(df, tr, "availability_typical")
        curt == TypicalGroups(df, tr, "curtailment_typical")
    IN  IF Cardinality(DOMAIN avail) # CalendarKeysRequired(tr)
        THEN [error |-> "Exception", value |-> NoLosses]
        ELSE IF Cardinality(DOMAIN curt) # CalendarKeysRequired(tr)
        THEN [error |-> "Exception", value |-> NoLosses]
        ELSE [error |-> "none",
              value |-> <<AnnualLoss(df, tr, avail, "availability_pct"),
                          AnnualLoss(df, tr, curt, "curtailment_pct")>>]

\* a direct call of calculate_long_term_losses()
CalculateLongTermLossesCall ==
    /\ pc = "idle"
    /\ \E r \in {calculate_long_term_losses(monthly_daily, args.time_resolution)} :
          /\ error' = r.error
          /\ long_term_losses' = IF r.error = "none" THEN r.value ELSE long_term_losses
    /\ steps' = <<"calculate_long_term_losses">>
    /\ UNCHANGED <<pc, args, plant, monthly_daily, reanalysis_monthly_daily, reanalysis_por_avg,
                   outlier_filtering, num_sim, reanal_subset, mc, loop, results,
                   npState, pyState, probe>>

\* the analyst marks a period as not representative of the plant's performance
\* (df.loc[period, 'availability_typical'] = False, or 'curtailment_typical')
MarkAtypical(i, flag) ==
    /\ pc = "idle"
    /\ i \in 1..Len(monthly_daily)
    /\ monthly_daily[i][flag]
    /\ monthly_daily' = [monthly_daily EXCEPT ![i][flag] = FALSE]
    /\ steps' = <<"mark_atypical">>
    /\ UNCHANGED <<pc, error, args, plant, reanalysis_monthly_daily, reanalysis_por_avg,
                   outlier_filtering, long_term_losses, num_sim, reanal_subset, mc, loop,
                   results, npState, pyState, probe>>

-----------------------------------------------------------------------------
(* Random numbers.  The program draws from two generators: numpy's global  *)
(* one (np.random.*, DataFrame.sample) and Python's global one             *)
(* (random.sample).  Each is a state that every draw advances; a draw is a *)
(* function of the state.  np.random.seed sets the first one only.         *)

NpModulus == 32
PyModulus == 16

NpNext(s) == (s * 5 + 3) % NpModulus
NpOut(s) == s \div 2

PyNext(s) == (s * 5 + 1) % PyModulus
PyOut(s) == s \div 2

\* size values in low .. low + span - 1, and the state afterwards
RECURSIVE Draws(_, _, _, _)
Draws(s, low, span, size) ==
    IF size = 0 THEN [values |-> <<>>, state |-> s]
    ELSE IF size = 1 THEN [values |-> <<low + (NpOut(NpNext(s)) % span)>>, state |-> NpNext(s)]
    ELSE LET first == Draws(s, low, span, size \div 2)
             rest == Draws(first.state, low, span, size - (size \div 2))
         IN  [values |-> first.values \o rest.values, state |-> rest.state]

\* a randint that can also return high
randint_Closed(s, low, high, size) == Draws(s, low, high - low + 1, size)

\* np.random.randint(low, high, size) for low < high: values in [low, high)
randint(s, low, high, size) == Draws(s, low, high - low, size)

\* np.random.normal(1, scale, size), in 1/BiasScale: one standard deviation below, at, or above 1
RECURSIVE normal(_, _, _)
normal(s, scale, size) ==
    IF size = 0 THEN [values |-> <<>>, state |-> s]
    ELSE IF size = 1
    THEN [values |-> <<BiasScale + scale * ((NpOut(NpNext(s)) % 3) - 1)>>, state |-> NpNext(s)]
    ELSE LET first == normal(s, scale, size \div 2)
             rest == normal(first.state, scale, size - (size \div 2))
         IN  [values |-> first.values \o rest.values, state |-> rest.state]

\* list(np.repeat(reanal_subset, num_sim))
RECURSIVE repeat(_, _)
repeat(subset, n) ==
    IF subset = <<>> THEN <<>>
    ELSE [i \in 1..n |-> Head(subset)] \o repeat(Tail(subset), n)

\* a sample of a single element, whatever the number asked for
sample_Single(s, pool, k) ==
    [values |-> <<pool[(PyOut(PyNext(s)) % Len(pool)) + 1]>>, state |-> PyNext(s)]

RECURSIVE sample(_, _, _)

\* random.sample(pool, k): k times, an element at a random position is taken and the last
\* element of the pool moved into its place
sample(s, pool, k) ==
    IF k = 0 THEN [values |-> <<>>, state |-> s]
    ELSE LET s1 == PyNext(s)
             j == (PyOut(s1) % Len(pool)) + 1
             left == [SubSeq(pool, 1, Len(pool) - 1) EXCEPT ![j] = pool[Len(pool)]]
             rest == sample(s1, IF j = Len(pool) THEN SubSeq(pool, 1, Len(pool) - 1) ELSE left, k - 1)
         IN  [values |-> <<pool[j]>> \o rest.values, state |-> rest.state]

-----------------------------------------------------------------------------
(* The Monte Carlo sampler *)

\* an entry of an array allocated by np.empty and not assigned since
Unassigned == <<0, 0>>

\* an assignment to the whole array: arr[:] = v
SetEntry_Broadcast(arr, n, v) == [i \in DOMAIN arr |-> v]

\* the assignment arr[n] = v to entry n (counted from 0) of an array
SetEntry(arr, n, v) == [arr EXCEPT ![n + 1] = v]

empty(n) == [i \in 1..n |-> Unassigned]

\* setup_monte_carlo_inputs: the error raised, the arrays assigned before it, the generators' states
setup_monte_carlo_inputs(a, n, subset, s0, p0) ==
    LET alloc == [slope |-> empty(n), intercept |-> empty(n), num_points |-> empty(n),
                  r2_score |-> empty(n), mse_score |-> empty(n)]
        mpf == a.uncertainty_max_power_filter
        wbt == a.uncertainty_wind_bin_thresh
        win == a.uncertainty_windiness
        lmx == a.uncertainty_loss_max
    IN  IF mpf[1] >= mpf[2]
        THEN [error |-> "ValueError", mc |-> alloc, np |-> s0, py |-> p0]
        ELSE
        LET d1 == randint(s0, mpf[1], mpf[2], n)
            m1 == alloc @@ [max_power_filter |-> d1.values]
        IN  IF wbt[1] * 100 >= wbt[2] * 100
            THEN [error |-> "ValueError", mc |-> m1, np |-> d1.state, py |-> p0]
            ELSE
            LET d2 == randint(d1.state, wbt[1] * 100, wbt[2] * 100, n)
                d3 == normal(d2.state, a.uncertainty_meter, n)
                d4 == normal(d3.state, a.uncertainty_losses, n)
                m4 == m1 @@ [wind_bin_thresh |-> d2.values,
                             metered_energy_fraction |-> d3.values,
                             loss_fraction |-> d4.values]
            IN  IF win[1] >= win[2] + 1
                THEN [error |-> "ValueError", mc |-> m4, np |-> d4.state, py |-> p0]
                ELSE
                LET d5 == randint(d4.state, win[1], win[2] + 1, n)
                    m5 == m4 @@ [num_years_windiness |-> d5.values]
                IN  IF lmx[1] >= lmx[2] + 1
                    THEN [error |-> "ValueError", mc |-> m5, np |-> d5.state, py |-> p0]
                    ELSE
                    LET d6 == randint(d5.state, lmx[1], lmx[2] + 1, n)
                        d7 == sample(p0, repeat(subset, n), n)
                    IN  [error |-> "none",
                         mc |-> m5 @@ [loss_threshold |-> d6.values,
                                       reanalysis_product |-> d7.values],
                         np |-> d6.state, py |-> d7.state]

-----------------------------------------------------------------------------
(* The outlier filter and its cache *)

\* filters.range_flag(col, below, above) of one value; a NaN is not flagged
range_flag(x, below, above) == isfinite(x) /\ (Val(x) < below \/ Val(x) > above)

\* filters.unresponsive_flag(col, threshold): the rows inside a stretch of `threshold` consecutive
\* rows that all hold the same value
unresponsive_flag(col, threshold) ==
    [i \in 1..Len(col) |->
        \E j \in 1..(Len(col) - threshold + 1) :
            /\ j <= i /\ i <= j + threshold - 1
            /\ \A k \in j..(j + threshold - 1) : isfinite(col[k]) /\ col[k] = col[j]]

\* the energy a plant of this capacity (MW) can produce in a period, in thousandths of an energy unit
plant_capac(pl, tr) == IF tr = "M" THEN pl.capacity * 366 * 24 ELSE pl.capacity * 1 * 24

\* a first filter that keeps the rows whose combined losses equal the threshold
df_sub_Inclusive(df, comb_loss_thresh) ==
    SelectSeq(df, LAMBDA r :
        /\ isfinite(r.availability_pct) /\ isfinite(r.curtailment_pct)
        /\ (Val(r.availability_pct) + Val(r.curtailment_pct)) * 100 <= comb_loss_thresh * PctScale
        /\ r.nan_flag = FALSE)

\* the first filter: combined losses below the threshold (a whole percent) and no NaN flag
df_sub(df, comb_loss_thresh) ==
    SelectSeq(df, LAMBDA r :
        /\ isfinite(r.availability_pct) /\ isfinite(r.curtailment_pct)
        /\ (Val(r.availability_pct) + Val(r.curtailment_pct)) * 100 < comb_loss_thresh * PctScale
        /\ r.nan_flag = FALSE)

\* the filtering work of filter_outliers, done on a miss: valid_data
FilterBaseTable(df, a, pl, reanal, comb_loss_thresh) ==
    LET tr == a.time_resolution
        sub == df_sub(df, comb_loss_thresh)
        ws == [i \in 1..Len(sub) |-> sub[i].rean[<<reanal, "">>]]
        flag_frozen == unresponsive_flag(ws, 3)
        flagged == [i \in 1..Len(sub) |->
                       [row |-> sub[i],
                        flag_neg |-> range_flag(Fin(sub[i].energy_gwh * 1000), 0, plant_capac(pl, tr)),
                        flag_final |-> range_flag(ws[i], 0, 40) \/ flag_frozen[i]]]
        valid == SelectSeq(AsSeq(flagged, Len(sub)), LAMBDA f : f.flag_final = FALSE)
    IN  [i \in 1..Len(valid) |->
            LET r == valid[i].row
                common == [ord |-> r.ord, month |-> r.month, day |-> r.day,
                           cols |-> [c \in ProductColumns(a, reanal) |-> r.rean[c]],
                           energy_gwh |-> IF valid[i].flag_neg THEN 0 ELSE r.energy_gwh,
                           availability_gwh |-> r.availability_gwh,
                           curtailment_gwh |-> r.curtailment_gwh]
            IN  IF tr = "M" THEN common @@ [num_days_expected |-> r.num_days_expected]
                ELSE common]

\* the energy column of the table with the flagged values set to 0
ClampFlagged(df, pl, tr) ==
    [i \in 1..Len(df) |->
        IF range_flag(Fin(df[i].energy_gwh * 1000), 0, plant_capac(pl, tr))
        THEN [df[i] EXCEPT !.energy_gwh = 0] ELSE df[i]]

\* a filter whose subset is a view of the base table: the clamping of the rows that pass the
\* first filter reaches the base table
BaseTableAfterFilter_View(df, a, pl, comb_loss_thresh) ==
    LET tr == a.time_resolution
        passes == {r.ord : r \in {df_sub(df, comb_loss_thresh)[i] :
                                    i \in 1..Len(df_sub(df, comb_loss_thresh))}}
        clamped == ClampFlagged(df, pl, tr)
    IN  [i \in 1..Len(df) |-> IF df[i].ord \in passes THEN clamped[i] ELSE df[i]]

\* self._monthly_daily.df after the filtering of a miss: df.loc[<boolean mask>, :] is a copy, so
\* the flag columns and the clamping written to df_sub leave the base table as it was
BaseTableAfterFilter(df, a, pl, comb_loss_thresh) == df

\* the key of simulation n (counted from 0) in the memo dictionary
FilterKey(samples, n) ==
    <<samples.reanalysis_product[n + 1], samples.max_power_filter[n + 1], samples.loss_threshold[n + 1]>>

\* a filter_outliers that starts a new dictionary on a miss
filter_outliers_NewDictionary(cache, df, a, pl, samples, n) ==
    LET key == FilterKey(samples, n)
    IN  IF key \in DOMAIN cache
        THEN [valid_data |-> cache[key], cache |-> cache, filtered |-> FALSE, df |-> df]
        ELSE LET valid_data == FilterBaseTable(df, a, pl, key[1], key[3])
                 forced == AsSeq(valid_data, Len(valid_data))
             IN  [valid_data |-> forced, cache |-> (key :> forced), filtered |-> TRUE,
                  df |-> BaseTableAfterFilter(df, a, pl, key[3])]

\* a filter_outliers that never looks its key up
filter_outliers_NoLookup(cache, df, a, pl, samples, n) ==
    LET key == FilterKey(samples, n)
        valid_data == FilterBaseTable(df, a, pl, key[1], key[3])
    IN  [valid_data |-> AsSeq(valid_data, Len(valid_data)),
         cache |-> (key :> AsSeq(valid_data, Len(valid_data))) @@ cache, filtered |-> TRUE,
         df |-> BaseTableAfterFilter(df, a, pl, key[3])]

\* a filter_outliers whose table carries the max-power-filter fraction it was computed for
filter_outliers_FractionColumn(cache, df, a, pl, samples, n) ==
    LET key == FilterKey(samples, n)
    IN  IF key \in DOMAIN cache
        THEN [valid_data |-> cache[key], cache |-> cache, filtered |-> FALSE, df |-> df]
        ELSE LET valid_data == FilterBaseTable(df, a, pl, key[1], key[3])
                 forced == AsSeq(valid_data, Len(valid_data))
                 tagged == [i \in 1..Len(forced) |-> forced[i] @@ [max_power_filter |-> key[2]]]
             IN  [valid_data |-> tagged, cache |-> (key :> tagged) @@ cache, filtered |-> TRUE,
                  df |-> BaseTableAfterFilter(df, a, pl, key[3])]

\* filter_outliers(n): what it returns, the dictionary afterwards, whether the filtering was done
filter_outliers(cache, df, a, pl, samples, n) ==
    LET key == FilterKey(samples, n)
    IN  IF key \in DOMAIN cache
        THEN [valid_data |-> cache[key], cache |-> cache, filtered |-> FALSE, df |-> df]
        ELSE LET valid_data == FilterBaseTable(df, a, pl, key[1], key[3])
                 forced == AsSeq(valid_data, Len(valid_data))
             IN  [valid_data |-> forced, cache |-> (key :> forced) @@ cache, filtered |-> TRUE,
                  df |-> BaseTableAfterFilter(df, a, pl, key[3])]

-----------------------------------------------------------------------------
(* The regression *)

SlopeScale == 10 * 10
TrigScale == 10

\* floor(a * b / c) for c > 0, without the product a * b
MulDiv(a, b, c) == (a \div c) * b + ((a % c) * b) \div c

\* np.sin(2*np.pi*wd/360) and np.cos(...) of a compass direction, in 1/TrigScale
sin_deg(wd) ==
    CASE wd \in {0, 180, 360} -> 0
      [] wd = 90 -> 10
      [] wd = 270 -> -10
      [] wd \in {45, 135} -> 7
      [] wd \in {225, 315} -> -7

cos_deg(wd) ==
    CASE wd \in {90, 270} -> 0
      [] wd \in {0, 360} -> 10
      [] wd = 180 -> -10
      [] wd \in {45, 315} -> 7
      [] wd \in {135, 225} -> -7

Sin(x) == IF isfinite(x) THEN Fin(sin_deg(Val(x))) ELSE NaN
Cos(x) == IF isfinite(x) THEN Fin(cos_deg(Val(x))) ELSE NaN

\* a regression channel of product p computed from the columns of a row
Channel(cols, p, name) ==
    CASE name = "ws" -> cols[<<p, "">>]
      [] name = "temp" -> cols[<<p, "_temp">>]
      [] name = "wd_sin" -> Sin(cols[<<p, "_wd">>])
      [] name = "wd_cos" -> Cos(cols[<<p, "_wd">>])

\* the columns of reg_inputs before the energy, in the order they are concatenated:
\* wind speed, temperature (if used), sine and cosine of the wind direction (if used)
reg_inputs_columns(a) ==
    <<"ws">>
    \o (IF a.reg_temperature = "Y" THEN <<"temp">> ELSE <<>>)
    \o (IF a.reg_winddirection = "Y" THEN <<"wd_sin", "wd_cos">> ELSE <<>>)

\* the regression inputs of a row
RegressionInputs(a, cols, p) ==
    SubSeq([i \in 1..Len(reg_inputs_columns(a)) |-> Channel(cols, p, reg_inputs_columns(a)[i])],
           1, Len(reg_inputs_columns(a)))

\* a loop that applies the coefficients of the sine and the cosine to each other's channel
gross_norm_por_terms_Crossed(a) ==
    <<"ws">>
    \o (IF a.reg_temperature = "Y" THEN <<"temp">> ELSE <<>>)
    \o (IF a.reg_winddirection = "Y" THEN <<"wd_cos", "wd_sin">> ELSE <<>>)

\* the channel of the period-of-record averages that slope[i - 1] multiplies in the loop of
\* run_AEP_monte_carlo, one branch per combination of the flags
gross_norm_por_terms(a) ==
    IF a.reg_temperature = "N" /\ a.reg_winddirection = "N" THEN <<"ws">>
    ELSE IF a.reg_temperature = "Y" /\ a.reg_winddirection = "N" THEN <<"ws", "temp">>
    ELSE IF a.reg_temperature = "N" /\ a.reg_winddirection = "Y" THEN <<"ws", "wd_sin", "wd_cos">>
    ELSE <<"ws", "temp", "wd_sin", "wd_cos">>

\* the inputs the coefficients are applied to for a period of the period-of-record averages
PorInputs(a, cols, p) ==
    SubSeq([i \in 1..Len(gross_norm_por_terms(a)) |-> Channel(cols, p, gross_norm_por_terms(a)[i])],
           1, Len(gross_norm_por_terms(a)))

\* the columns of long_term_reg_inputs in the order they are concatenated
long_term_reg_inputs_columns(a) ==
    <<"ws">>
    \o (IF a.reg_temperature = "Y" THEN <<"temp">> ELSE <<>>)
    \o (IF a.reg_winddirection = "Y" THEN <<"wd_sin", "wd_cos">> ELSE <<>>)

\* a row of long_term_reg_inputs from its four possible channels
LongTermRow(a, mc_ws, temp, wd_sin, wd_cos) ==
    LET columns == long_term_reg_inputs_columns(a)
    IN  SubSeq([i \in 1..Len(columns) |->
                   CASE columns[i] = "ws" -> mc_ws
                     [] columns[i] = "temp" -> temp
                     [] columns[i] = "wd_sin" -> wd_sin
                     [] columns[i] = "wd_cos" -> wd_cos],
               1, Len(columns))

\* a set_regression_data that scales the curtailment by the meter draw
set_regression_data_CurtailmentByMeterDraw(valid_data, a, samples, n) ==
    [i \in 1..Len(valid_data) |->
        LET r == valid_data[i]
            mc_energy == r.energy_gwh * samples.metered_energy_fraction[n + 1]
            mc_availability == Val(r.availability_gwh) * samples.loss_fraction[n + 1]
            mc_curtailment == Val(r.curtailment_gwh) * samples.metered_energy_fraction[n + 1]
            mc_gross_energy == mc_energy + mc_availability + mc_curtailment
            mc_gross_norm == IF a.time_resolution = "M"
                             THEN (mc_gross_energy * 30) \div r.num_days_expected
                             ELSE mc_gross_energy
        IN  [x |-> RegressionInputs(a, r.cols, samples.reanalysis_product[n + 1]),
             y |-> mc_gross_norm]]

\* set_regression_data(n) on the filtered table: per row the inputs and the normalized gross
\* energy (in 1/BiasScale of an energy unit)
set_regression_data(valid_data, a, samples, n) ==
    [i \in 1..Len(valid_data) |->
        LET r == valid_data[i]
            mc_energy == r.energy_gwh * samples.metered_energy_fraction[n + 1]
            mc_availability == Val(r.availability_gwh) * samples.loss_fraction[n + 1]
            mc_curtailment == Val(r.curtailment_gwh) * samples.loss_fraction[n + 1]
            mc_gross_energy == mc_energy + mc_availability + mc_curtailment
            mc_gross_norm == IF a.time_resolution = "M"
                             THEN (mc_gross_energy * 30) \div r.num_days_expected
                             ELSE mc_gross_energy
        IN  [x |-> RegressionInputs(a, r.cols, samples.reanalysis_product[n + 1]),
             y |-> mc_gross_norm]]

\* a sample count that truncates 0.8 * k
SampleCount_Floor(k) == (8 * k) \div 10

\* the number of rows DataFrame.sample(frac = 0.8) draws from k rows: round(0.8 * k)
SampleCount(k) == (8 * k + 5) \div 10

\* a sample that takes every row
SampleCount_All(k) == k

\* reg_data.sample(frac = 0.8): the rows drawn (without replacement), their positions in the table
\* and the state afterwards; the rows left out are a stretch of the table that starts where the
\* generator says
sample_frac(reg_data, s) ==
    LET k == Len(reg_data)
        s1 == NpNext(s)
        first == IF k = 0 THEN 0 ELSE NpOut(s1) % k
        left_out == {((first + j) % k) + 1 : j \in 0..(k - SampleCount(k) - 1)}
        drawn == SelectSeq([i \in 1..k |-> i], LAMBDA i : i \notin left_out)
    IN  [rows |-> [m \in 1..Len(drawn) |-> reg_data[drawn[m]]],
         index |-> drawn, state |-> s1]

RECURSIVE SumRange(_, _, _)
SumRange(f, lo, hi) ==
    IF lo = hi THEN f[lo]
    ELSE LET mid == (lo + hi) \div 2
         IN  SumRange(f, lo, mid) + SumRange(f, mid + 1, hi)

\* the sum of f[1] .. f[n]
SumSeqOp(f, n) == IF n = 0 THEN 0 ELSE SumRange(f, 1, n)

\* LinearRegression().fit(X, y) of sklearn on finite data with at least one row: per channel the
\* least-squares slope of y on that channel (0 for a channel that does not vary), and the
\* intercept that makes the means fit; both in 1/SlopeScale
LinearRegression_fit(rows) ==
    LET n == Len(rows)
        channels == 1..Len(rows[1].x)
        y0 == SumSeqOp([i \in 1..n |-> rows[i].y], n) \div n
        x0 == [c \in channels |-> SumSeqOp([i \in 1..n |-> Val(rows[i].x[c])], n) \div n]
        dy == [i \in 1..n |-> rows[i].y - y0]
        dx == [c \in channels |-> [i \in 1..n |-> Val(rows[i].x[c]) - x0[c]]]
        Sx == [c \in channels |-> SumSeqOp(dx[c], n)]
        Sy == SumSeqOp(dy, n)
        Sxy == [c \in channels |-> SumSeqOp([i \in 1..n |-> dx[c][i] * dy[i]], n)]
        Sxx == [c \in channels |-> SumSeqOp([i \in 1..n |-> dx[c][i] * dx[c][i]], n)]
        coef == [c \in channels |->
                    LET num == n * Sxy[c] - Sx[c] * Sy
                        den == n * Sxx[c] - Sx[c] * Sx[c]
                    IN  IF den = 0 THEN 0 ELSE MulDiv(num, SlopeScale, den)]
        \* mean(y) - sum over the channels of coef * mean(x)
        mean_y == y0 * SlopeScale + (Sy * SlopeScale) \div n
        mean_x_part == [c \in channels |-> coef[c] * x0[c] + MulDiv(coef[c], Sx[c], n)]
    IN  [coef |-> AsSeq(coef, Len(rows[1].x)),
         intercept |-> mean_y - SumSeqOp(mean_x_part, Len(rows[1].x))]

\* reg.predict: slope . x + intercept for inputs x given in 1/scale, in 1/BiasScale energy units
Predict(coef, intercept, x, scale) ==
    (SumSeqOp([c \in 1..Len(coef) |-> MulDiv(coef[c], x[c], scale)], Len(coef)) + intercept)
        \div SlopeScale

\* mean_squared_error and r2_score of the fit on its own sample (energy units; r2 in 1/1000)
FitScores(rows, fit) ==
    LET n == Len(rows)
        y == [i \in 1..n |-> rows[i].y \div BiasScale]
        mean == SumSeqOp(y, n) \div n
        pred == [i \in 1..n |->
                    Predict(fit.coef, fit.intercept,
                            [c \in 1..Len(fit.coef) |-> Val(rows[i].x[c])], 1) \div BiasScale]
        ss_res == SumSeqOp([i \in 1..n |-> (y[i] - pred[i]) * (y[i] - pred[i])], n)
        ss_tot == SumSeqOp([i \in 1..n |-> (y[i] - mean) * (y[i] - mean)], n)
    IN  [mse |-> Fin(ss_res \div n),
         r2 |-> IF n < 2 \/ ss_tot = 0 THEN NaN ELSE Fin(1000 - MulDiv(ss_res, 1000, ss_tot))]

\* MachineLearningSetup(reg_model).hyper_optimize(X, y, n_iter_search = 5, cv = KFold(n_splits = 2)):
\* the fitted predictor ml.random_search.  The search is a black box; it is represented by the
\* predictor that answers the mean of the target of its sample whatever the inputs
hyper_optimize(reg_model, rows) ==
    LET n == Len(rows)
    IN  [reg_model |-> reg_model,
         coef |-> [c \in 1..Len(rows[1].x) |-> 0],
         intercept |-> (SumSeqOp([i \in 1..n |-> rows[i].y], n) \div n) * SlopeScale]

\* run_regression(n): the error raised (sklearn refuses an empty sample and a sample with NaN, and
\* the two folds of the search need two rows), the sample count recorded before the fit, and
\* the fit: slope and intercept of the linear model, or the fitted predictor
run_regression(valid_data, a, samples, n, s) ==
    LET drawn == sample_frac(set_regression_data(valid_data, a, samples, n), s)
        rows == AsSeq(drawn.rows, Len(drawn.rows))
        bad == rows = <<>> \/ \E i \in 1..Len(rows) : \E c \in 1..Len(rows[i].x) : rows[i].x[c] = NaN
        fit == LinearRegression_fit(rows)
        random_search == hyper_optimize(a.reg_model, rows)
        sampled == [num_points |-> Len(rows), state |-> drawn.state,
                    index |-> AsSeq(drawn.index, Len(rows)), y |-> [m \in 1..Len(rows) |-> rows[m].y]]
    IN  IF bad \/ (a.reg_model # "lin" /\ Len(rows) < 2)
        THEN [error |-> "ValueError"] @@ sampled
        ELSE IF a.reg_model = "lin"
        THEN [error |-> "none", slope |-> fit.coef, intercept |-> fit.intercept,
              scores |-> FitScores(rows, fit)] @@ sampled
        ELSE [error |-> "none", random_search |-> random_search,
              scores |-> FitScores(rows, random_search)] @@ sampled

-----------------------------------------------------------------------------
(* The long-term reanalysis sample *)

\* long-term averages are kept in 1/LtScale of the column's unit
LtScale == 10

\* the integer square root
isqrt(v) == CHOOSE k \in 0..v : k * k <= v /\ v < (k + 1) * (k + 1)

\* series.dropna().tail(count): the (period, value) records of a column of the reanalysis frame
TailRecords(rean, col, count) ==
    LET present == SelectSeq([i \in 1..rean.len |-> [ord |-> rean.start + i - 1, value |-> rean.cols[col][i]]],
                             LAMBDA rec : isfinite(rec.value))
        from == IF Len(present) > count THEN Len(present) - count + 1 ELSE 1
    IN  SubSeq(present, from, Len(present))

\* groupby(index.month) of such records: per calendar month present, the values
MonthlyValues(records) ==
    LET months == {MonthOfYear(records[i].ord) : i \in 1..Len(records)}
    IN  [m \in months |->
            LET idx == {i \in 1..Len(records) : MonthOfYear(records[i].ord) = m}
            IN  [count |-> Cardinality(idx),
                 sum |-> SumOver([i \in idx |-> records[i].value], idx),
                 sumsq |-> SumOver([i \in idx |-> Fin(Val(records[i].value) * Val(records[i].value))], idx)]]

\* .mean() of a group, in 1/LtScale
LtMean(g) == (g.sum * LtScale) \div g.count

\* .std() of a group (sample standard deviation), in 1/LtScale; NaN for a single value
LtStd(g) ==
    IF g.count < 2 THEN NaN
    ELSE Fin(isqrt(((g.count * g.sumsq - g.sum * g.sum) * LtScale * LtScale)
                   \div (g.count * (g.count - 1))))

\* the j-th smallest calendar month of a set
NthMonth(months, j) == CHOOSE m \in months : Cardinality({k \in months : k < m}) = j - 1

\* sample_long_term_reanalysis(n, r) at monthly resolution: one row of regression inputs per
\* calendar month present in the window (in 1/LtScale), and the generator's state afterwards.
\* The wind speed of a month is its mean times a draw of Normal(1, std / mean), that is its
\* mean plus (a standard normal draw) x std; the draw of a month with a single record is NaN.
LongTermMonthly(rean, a, years, r, s) ==
    LET ws == MonthlyValues(TailRecords(rean, <<r, "">>, years * 12))
        months == DOMAIN ws
        k == Cardinality(months)
        draws == normal(s, 1, k)
        temp == MonthlyValues(TailRecords(rean, <<r, "_temp">>, years * 12))
        u == MonthlyValues(TailRecords(rean, <<r, "_u">>, years * 12))
        v == MonthlyValues(TailRecords(rean, <<r, "_v">>, years * 12))
        Row(j) ==
            LET m == NthMonth(months, j)
                z == draws.values[j] - BiasScale
                sd == LtStd(ws[m])
                mc_ws == IF sd = NaN THEN NaN ELSE Fin(LtMean(ws[m]) + z * Val(sd))
                wd == wd_long_term(u[m].sum \div u[m].count, v[m].sum \div v[m].count)
            IN  LongTermRow(a, mc_ws,
                            IF a.reg_temperature = "Y" THEN Fin(LtMean(temp[m])) ELSE NaN,
                            IF a.reg_winddirection = "Y" THEN Fin(sin_deg(wd) * LtScale) ELSE NaN,
                            IF a.reg_winddirection = "Y" THEN Fin(cos_deg(wd) * LtScale) ELSE NaN)
    IN  [error |-> "none", rows |-> [j \in 1..k |-> Row(j)], state |-> draws.state]

\* the place of a day in the calendar of a leap year: the order in which groupby sorts the
\* (month, day) keys
LeapDayIndex(ord) == DaysBeforeMonth(0, DayMonth(ord)) + DayOfMonth(ord)

\* the calendar month of the j-th day of a leap year: np.repeat(..., num_days_lt)
LeapMonthOf(j) == DayMonth(j - 1)

RECURSIVE DayGroupRange(_, _, _)
DayGroupRange(records, lo, hi) ==
    IF lo = hi THEN (LeapDayIndex(records[lo].ord) :> {lo})
    ELSE LET mid == (lo + hi) \div 2
         IN  MergeGroups(DayGroupRange(records, lo, mid), DayGroupRange(records, mid + 1, hi))

\* groupby([index.month, index.day]) of the records of a daily column: per calendar day present
\* the values, and the days present in the order of the calendar
DailyValues(records) ==
    IF records = <<>> THEN [groups |-> <<>>, days |-> <<>>]
    ELSE LET idx == DayGroupRange(records, 1, Len(records))
         IN  [groups |-> [d \in DOMAIN idx |->
                            [count |-> Cardinality(idx[d]),
                             sum |-> SumOver([i \in idx[d] |-> records[i].value], idx[d])]],
              days |-> SelectSeq([d \in 1..366 |-> d], LAMBDA d : d \in DOMAIN idx)]

\* groupby(index.month) of the records of a daily column
DailyMonthValues(records) ==
    LET months == {DayMonth(records[i].ord) : i \in 1..Len(records)}
    IN  [m \in months |->
            LET idx == {i \in 1..Len(records) : DayMonth(records[i].ord) = m}
            IN  [count |-> Cardinality(idx),
                 sum |-> SumOver([i \in idx |-> records[i].value], idx),
                 sumsq |-> SumOver([i \in idx |-> Fin(Val(records[i].value) * Val(records[i].value))], idx)]]

\* sample_long_term_reanalysis(n, r) at daily resolution: the mean of every calendar day present
\* in the window, in the order of the calendar; the standard deviation of every calendar month,
\* repeated over the 366 days of a leap year (which fails unless all twelve months are present);
\* one draw per row of the quotient of the two, which has the rows of the longer of them.
LongTermDaily(rean, a, years, r, s) ==
    LET records == TailRecords(rean, <<r, "">>, years * 366)
        ws == DailyValues(records)
        sd_12 == DailyMonthValues(records)
        k == Len(ws.days)
        draws == normal(s, 1, 366)
        temp == DailyValues(TailRecords(rean, <<r, "_temp">>, years * 366))
        u == DailyValues(TailRecords(rean, <<r, "_u">>, years * 366))
        v == DailyValues(TailRecords(rean, <<r, "_v">>, years * 366))
        Row(j) ==
            LET z == draws.values[j] - BiasScale
                sd == LtStd(sd_12[LeapMonthOf(j)])
                mc_ws == IF j > k \/ sd = NaN THEN NaN
                         ELSE Fin(LtMean(ws.groups[ws.days[j]]) + z * Val(sd))
                mc_temp == IF j > Len(temp.days) THEN NaN
                           ELSE Fin(LtMean(temp.groups[temp.days[j]]))
                wd == IF j > Len(u.days) \/ u.days[j] \notin DOMAIN v.groups THEN NaN
                      ELSE LET d == u.days[j]
                           IN  Fin(wd_long_term(u.groups[d].sum \div u.groups[d].count,
                                                v.groups[d].sum \div v.groups[d].count))
            IN  LongTermRow(a, mc_ws,
                            IF a.reg_temperature = "Y" THEN mc_temp ELSE NaN,
                            IF a.reg_winddirection = "N" \/ wd = NaN THEN NaN
                            ELSE Fin(sin_deg(Val(wd)) * LtScale),
                            IF a.reg_winddirection = "N" \/ wd = NaN THEN NaN
                            ELSE Fin(cos_deg(Val(wd)) * LtScale))
    IN  IF Cardinality(DOMAIN sd_12) # 12
        THEN [error |-> "ValueError", rows |-> <<>>, state |-> s]
        ELSE [error |-> "none", rows |-> AsSeq([j \in 1..366 |-> Row(j)], 366),
              state |-> draws.state]

\* sample_long_term_reanalysis(n, r): the error raised, the rows of long-term regression inputs
\* (in 1/LtScale) and the generator's state afterwards
sample_long_term_reanalysis(rean, a, years, r, s) ==
    IF a.time_resolution = "M" THEN LongTermMonthly(rean, a, years, r, s)
    ELSE LongTermDaily(rean, a, years, r, s)

\* sample_long_term_losses(n): both baseline scalars times the loss draw of simulation n (1/PctScale)
sample_long_term_losses(lt_losses, samples, n) ==
    <<(lt_losses[1] * samples.loss_fraction[n + 1]) \div BiasScale,
      (lt_losses[2] * samples.loss_fraction[n + 1]) \div BiasScale>>

-----------------------------------------------------------------------------
(* One iteration of the simulation loop (linear model) *)

RatioScale == 1000

\* cells as plain numbers
Vals(x) == [c \in 1..Len(x) |-> Val(x[c])]

HasNaN(x) == \E c \in 1..Len(x) : x[c] = NaN

\* the sum over the twelve calendar months of the predicted normalized energy of the month times
\* num_days_lt / 30; a month with a NaN input has a NaN prediction, which sum() skips
AnnualGross(coef, intercept, rows, scale) ==
    SumSeqOp([m \in 1..12 |->
                 IF HasNaN(rows[m]) THEN 0
                 ELSE (Predict(coef, intercept, Vals(rows[m]), scale) * NumDaysLt4[m]) \div (4 * 30)],
             12)

\* the AEP with the curtailment loss subtracted as well
aep_NetOfCurtailment(gross_lt_sum, lt_losses) ==
    (gross_lt_sum * (PctScale - lt_losses[1] - lt_losses[2])) \div PctScale

\* gross_lt.sum() * (1 - avail_lt_losses)
aep(gross_lt_sum, lt_losses) == (gross_lt_sum * (PctScale - lt_losses[1])) \div PctScale

\* the sum of the predictions on the rows of a daily table; with the linear model a row with a
\* NaN input has a NaN prediction, which sum() skips
DailyGross(coef, intercept, rows, scale) ==
    SumSeqOp([j \in 1..Len(rows) |->
                 IF HasNaN(rows[j]) THEN 0 ELSE Predict(coef, intercept, Vals(rows[j]), scale)],
             Len(rows))

\* the calendar days of self._reanalysis_por_avg in the order of the calendar
PorDays(keys) ==
    SelectSeq([d \in 1..366 |-> <<LeapMonthOf(d), d - DaysBeforeMonth(0, LeapMonthOf(d))>>],
              LAMBDA key : key \in keys)

\* a run_regression that does not record the mean squared error of the other models
run_regression_writes_NoError(reg_model) ==
    IF reg_model = "lin" THEN {"num_points", "slope", "intercept", "r2_score", "mse_score"}
    ELSE {"num_points", "r2_score"}

\* the arrays of the sampler of which run_regression(n) assigns entry n: the branch of the
\* linear model records the slope and the intercept, the branch of the other models does not
run_regression_writes(reg_model) ==
    IF reg_model = "lin" THEN {"num_points", "slope", "intercept", "r2_score", "mse_score"}
    ELSE {"num_points", "r2_score", "mse_score"}

\* a loop that fits first whatever the model
IterationOrder_FitFirst(reg_model) ==
    <<"filter_outliers", "run_regression", "sample_long_term_reanalysis">>

\* the first calls of the body of the loop, in their order: the loop of the linear model calls
\* run_regression (which calls filter_outliers) and then sample_long_term_reanalysis; the loop
\* of the other models calls sample_long_term_reanalysis and then run_regression
IterationOrder(reg_model) ==
    IF reg_model = "lin"
    THEN <<"filter_outliers", "run_regression", "sample_long_term_reanalysis">>
    ELSE <<"sample_long_term_reanalysis", "filter_outliers", "run_regression">>

FitFirst(reg_model) == IterationOrder(reg_model)[1] = "filter_outliers"

\* the result of an iteration that raised
Raised(err, ran, f, samples, s) ==
    [error |-> err, steps |-> ran, cache |-> f.cache, filtered |-> f.filtered, mc |-> samples,
     state |-> s]

\* iteration n of the loop of run_AEP_monte_carlo, given what filter_outliers (f), run_regression
\* (reg) and sample_long_term_reanalysis (lt) returned: the error raised, the steps executed,
\* the memo dictionary, the sampler's arrays and the generator's state afterwards, the outputs.
\* The loop of the linear model fits the regression and then draws the long-term inputs; the loop
\* of the other models draws the long-term inputs and then fits.
Iterate(n, f, reg, lt) ==
    LET lin == args.reg_model = "lin"
        fit_first == FitFirst(args.reg_model)
        monthly == args.time_resolution = "M"
        product == mc.reanalysis_product[n + 1]
        counted == [mc EXCEPT !.num_points = SetEntry(@, n, Fin(reg.num_points))]
        writes == run_regression_writes(args.reg_model)
        fitted == [counted EXCEPT
                      !.slope = IF "slope" \in writes THEN SetEntry(@, n, reg.slope) ELSE @,
                      !.intercept = IF "intercept" \in writes
                                    THEN SetEntry(@, n, Fin(reg.intercept)) ELSE @,
                      !.r2_score = IF "r2_score" \in writes THEN SetEntry(@, n, reg.scores.r2) ELSE @,
                      !.mse_score = IF "mse_score" \in writes
                                    THEN SetEntry(@, n, reg.scores.mse) ELSE @]
        fit == IF lin THEN [coef |-> reg.slope, intercept |-> reg.intercept] ELSE reg.random_search
        por_keys == DOMAIN reanalysis_por_avg
        por == IF monthly
               THEN [j \in 1..Cardinality(por_keys) |->
                        PorInputs(args, reanalysis_por_avg[NthMonth(por_keys, j)], product)]
               ELSE LET days == PorDays(por_keys)
                    IN  [j \in 1..Len(days) |->
                            PorInputs(args, reanalysis_por_avg[days[j]], product)]
        gross_lt == IF monthly THEN AnnualGross(fit.coef, fit.intercept, lt.rows, LtScale)
                    ELSE DailyGross(fit.coef, fit.intercept, lt.rows, LtScale)
        gross_por == IF monthly THEN AnnualGross(fit.coef, fit.intercept, por, 1)
                     ELSE DailyGross(fit.coef, fit.intercept, por, 1)
        losses == sample_long_term_losses(long_term_losses, mc, n)
        upto_fit == <<"filter_outliers", "run_regression">>
        upto_lt == IterationOrder(args.reg_model)
        last == IF fit_first THEN lt.state ELSE reg.state
    IN  IF ~fit_first /\ lt.error # "none"
        THEN Raised(lt.error, <<"sample_long_term_reanalysis">>, f, mc, lt.state)
        ELSE IF reg.error # "none"
        THEN Raised(reg.error, IF fit_first THEN upto_fit ELSE upto_lt, f, counted, reg.state)
        ELSE IF fit_first /\ lt.error # "none"
        THEN Raised(lt.error, upto_lt, f, fitted, lt.state)
        ELSE IF (monthly /\ Len(lt.rows) # 12)
                \/ (~lin /\ \E j \in 1..Len(lt.rows) : HasNaN(lt.rows[j]))
        THEN Raised("ValueError", upto_lt, f, fitted, last)
        ELSE IF (monthly /\ Cardinality(por_keys) # 12)
                \/ (~lin /\ \E j \in 1..Len(por) : HasNaN(por[j]))
        THEN Raised("ValueError", Append(upto_lt, "gross_lt"), f, fitted, last)
        ELSE [error |-> "none",
              steps |-> upto_lt \o <<"gross_lt", "gross_por", "sample_long_term_losses", "record">>,
              cache |-> f.cache, filtered |-> f.filtered, mc |-> fitted, state |-> last,
              gross_lt |-> gross_lt, gross_por |-> gross_por,
              aep_GWh |-> Fin(aep(gross_lt, losses)),
              avail_pct |-> Fin(losses[1]),
              curt_pct |-> Fin(losses[2]),
              lt_por_ratio |-> Divide(Fin(gross_lt), Fin(gross_por), RatioScale)]

-----------------------------------------------------------------------------
(* run() and the calls made on a constructed engine.  run() proceeds in    *)
(* steps: the long-term losses, the sampler, one step per iteration of the *)
(* loop, and the assignment of self.results.                               *)

\* np.random.seed(k)
Seed(k) ==
    /\ pc = "idle"
    /\ npState' = k
    /\ probe' = [probe EXCEPT !.seeded = k]
    /\ steps' = <<"seed">>
    /\ UNCHANGED <<pc, error, args, plant, monthly_daily, reanalysis_monthly_daily,
                   reanalysis_por_avg, outlier_filtering, long_term_losses, num_sim,
                   reanal_subset, mc, loop, results, pyState>>

\* run(num_sim, reanal_subset), up to the first computation
Run(n, subset) ==
    /\ pc = "idle"
    /\ probe.runs < MaxRuns
    /\ pc' = "losses"
    /\ error' = "none"
    /\ num_sim' = n
    /\ reanal_subset' = subset
    /\ steps' = <<"run">>
    /\ probe' = [probe EXCEPT !.runs = @ + 1, !.run_seed = probe.seeded, !.seeded = -1,
                              !.returns = <<>>, !.sample = <<>>,
                              !.keys_at_run = DOMAIN outlier_filtering]
    /\ UNCHANGED <<args, plant, monthly_daily, reanalysis_monthly_daily, reanalysis_por_avg,
                   outlier_filtering, long_term_losses, mc, loop, results, npState, pyState>>

\* run(): self.calculate_long_term_losses()
RunLongTermLosses ==
    /\ pc = "losses"
    /\ \E r \in {calculate_long_term_losses(monthly_daily, args.time_resolution)} :
          /\ error' = r.error
          /\ pc' = IF r.error = "none" THEN "setup" ELSE "idle"
          /\ long_term_losses' = IF r.error = "none" THEN r.value ELSE long_term_losses
    /\ steps' = Append(steps, "calculate_long_term_losses")
    /\ UNCHANGED <<args, plant, monthly_daily, reanalysis_monthly_daily, reanalysis_por_avg,
                   outlier_filtering, num_sim, reanal_subset, mc, loop, results,
                   npState, pyState, probe>>

\* run(): self.setup_monte_carlo_inputs(), and the allocation of the output arrays at the entry
\* of run_AEP_monte_carlo
RunSetup ==
    /\ pc = "setup"
    /\ \E r \in {setup_monte_carlo_inputs(args, num_sim, reanal_subset, npState, pyState)} :
          /\ error' = r.error
          /\ mc' = r.mc @@ mc
          /\ npState' = r.np
          /\ pyState' = r.py
          /\ IF r.error = "none"
             THEN /\ pc' = "loop"
                  /\ loop' = [n |-> 0, log |-> <<>>,
                              aep_GWh |-> empty(num_sim), avail_pct |-> empty(num_sim),
                              curt_pct |-> empty(num_sim), lt_por_ratio |-> empty(num_sim),
                              gross_lt |-> empty(num_sim), gross_por |-> empty(num_sim)]
             ELSE /\ pc' = "idle"
                  /\ loop' = NoLoop
    /\ steps' = Append(steps, "setup_monte_carlo_inputs")
    /\ UNCHANGED <<args, plant, monthly_daily, reanalysis_monthly_daily, reanalysis_por_avg,
                   outlier_filtering, long_term_losses, num_sim, reanal_subset, results, probe>>

\* run_AEP_monte_carlo: the body of the loop for n = loop.n
Iteration ==
    /\ pc = "loop"
    /\ loop.n < num_sim
    /\ \E first \in {IF FitFirst(args.reg_model) THEN <<>>
                     ELSE sample_long_term_reanalysis(reanalysis_monthly_daily, args,
                                                      mc.num_years_windiness[loop.n + 1],
                                                      mc.reanalysis_product[loop.n + 1], npState)} :
       \E fitting \in {FitFirst(args.reg_model) \/ first.error = "none"} :
       \E f \in {IF fitting
                 THEN filter_outliers(outlier_filtering, monthly_daily, args, plant, mc, loop.n)
                 ELSE [valid_data |-> <<>>, cache |-> outlier_filtering, filtered |-> FALSE,
                       df |-> monthly_daily]} :
       \E reg \in {IF fitting
                   THEN run_regression(f.valid_data, args, mc, loop.n,
                                       IF FitFirst(args.reg_model) THEN npState ELSE first.state)
                   ELSE <<>>} :
       \E lt \in {IF ~FitFirst(args.reg_model) THEN first
                  ELSE IF reg.error # "none" THEN <<>>
                  ELSE sample_long_term_reanalysis(reanalysis_monthly_daily, args,
                                                   mc.num_years_windiness[loop.n + 1],
                                                   mc.reanalysis_product[loop.n + 1], reg.state)} :
       \E it \in {Iterate(loop.n, f, reg, lt)} :
          /\ error' = it.error
          /\ steps' = steps \o it.steps
          /\ monthly_daily' = f.df
          /\ outlier_filtering' = it.cache
          /\ mc' = it.mc
          /\ npState' = it.state
          /\ probe' = [probe EXCEPT !.filter_work = @ + (IF it.filtered THEN 1 ELSE 0),
                                    !.sample = IF fitting
                                               THEN [n |-> loop.n, valid_data |-> f.valid_data,
                                                     index |-> reg.index, y |-> reg.y]
                                               ELSE @]
          /\ IF it.error = "none"
             THEN /\ pc' = "loop"
                  /\ loop' = [loop EXCEPT !.n = @ + 1,
                                          !.log = Append(@, loop.n),
                                          !.aep_GWh = SetEntry(@, loop.n, it.aep_GWh),
                                          !.avail_pct = SetEntry(@, loop.n, it.avail_pct),
                                          !.curt_pct = SetEntry(@, loop.n, it.curt_pct),
                                          !.lt_por_ratio = SetEntry(@, loop.n, it.lt_por_ratio),
                                          !.gross_lt = SetEntry(@, loop.n, Fin(it.gross_lt)),
                                          !.gross_por = SetEntry(@, loop.n, Fin(it.gross_por))]
             ELSE /\ pc' = "idle"
                  /\ loop' = NoLoop
    /\ UNCHANGED <<args, plant, reanalysis_monthly_daily, reanalysis_por_avg,
                   long_term_losses, num_sim, reanal_subset, results, pyState>>

\* a result table without its last row
sim_results_Partial(l, n) ==
    [i \in 1..(n - 1) |-> [aep_GWh |-> l.aep_GWh[i], avail_pct |-> l.avail_pct[i],
                           curt_pct |-> l.curt_pct[i], lt_por_ratio |-> l.lt_por_ratio[i]]]

\* the table run_AEP_monte_carlo returns
sim_results(l, n) ==
    [i \in 1..n |-> [aep_GWh |-> l.aep_GWh[i], avail_pct |-> l.avail_pct[i],
                     curt_pct |-> l.curt_pct[i], lt_por_ratio |-> l.lt_por_ratio[i]]]

\* the key under which the tables of seeded runs are remembered
RunKey == <<probe.run_seed, num_sim, reanal_subset>>

\* run_AEP_monte_carlo returns after the last iteration, and run() assigns self.results
StoreResults ==
    /\ pc = "loop"
    /\ loop.n = num_sim
    /\ pc' = "idle"
    /\ results' = sim_results(loop, num_sim)
    /\ loop' = NoLoop
    /\ steps' = Append(steps, "store_results")
    /\ probe' = [probe EXCEPT
                    !.stored = [log |-> loop.log, gross_lt |-> loop.gross_lt,
                                gross_por |-> loop.gross_por, baseline |-> long_term_losses,
                                loss_fraction |-> mc.loss_fraction],
                    !.tables = IF probe.run_seed = -1 THEN @
                               ELSE (RunKey :> ((IF RunKey \in DOMAIN @ THEN @[RunKey] ELSE {})
                                                \cup {sim_results(loop, num_sim)})) @@ @]
    /\ UNCHANGED <<error, args, plant, monthly_daily, reanalysis_monthly_daily,
                   reanalysis_por_avg, outlier_filtering, long_term_losses, num_sim,
                   reanal_subset, mc, npState, pyState>>

\* a direct call of filter_outliers(n)
FilterOutliersCall(n) ==
    /\ pc = "idle"
    /\ {"reanalysis_product", "max_power_filter", "loss_threshold"} \subseteq DOMAIN mc
    /\ n < Len(mc.reanalysis_product) /\ n < Len(mc.max_power_filter) /\ n < Len(mc.loss_threshold)
    /\ \E f \in {filter_outliers(outlier_filtering, monthly_daily, args, plant, mc, n)} :
          /\ outlier_filtering' = f.cache
          /\ monthly_daily' = f.df
          /\ probe' = [probe EXCEPT
                          !.filter_work = @ + (IF f.filtered THEN 1 ELSE 0),
                          !.returns = (n :> [key |-> FilterKey(mc, n), valid_data |-> f.valid_data]) @@ @]
    /\ steps' = <<"filter_outliers">>
    /\ error' = "none"
    /\ UNCHANGED <<pc, args, plant, reanalysis_monthly_daily, reanalysis_por_avg,
                   long_term_losses, num_sim, reanal_subset, mc, loop, results, npState, pyState>>

\* the arrays run_regression(n) reads and writes exist and have an entry n
SamplerHasEntry(n) ==
    /\ {"reanalysis_product", "max_power_filter", "loss_threshold", "metered_energy_fraction",
        "loss_fraction", "num_points", "slope", "intercept", "r2_score", "mse_score"}
          \subseteq DOMAIN mc
    /\ \A name \in {"reanalysis_product", "max_power_filter", "loss_threshold",
                     "metered_energy_fraction", "loss_fraction", "num_points", "slope",
                     "intercept", "r2_score", "mse_score"} : n < Len(mc[name])

\* a direct call of run_regression(n), which calls set_regression_data(n) and through it
\* filter_outliers(n)
RunRegressionCall(n) ==
    /\ pc = "idle"
    /\ probe.reg_calls < MaxCalls
    /\ SamplerHasEntry(n)
    /\ \E f \in {filter_outliers(outlier_filtering, monthly_daily, args, plant, mc, n)} :
       \E reg \in {run_regression(f.valid_data, args, mc, n, npState)} :
          /\ error' = reg.error
          /\ outlier_filtering' = f.cache
          /\ monthly_daily' = f.df
          /\ npState' = reg.state
          /\ mc' = IF reg.error # "none"
                   THEN [mc EXCEPT !.num_points = SetEntry(@, n, Fin(reg.num_points))]
                   ELSE IF args.reg_model # "lin"
                   THEN [mc EXCEPT !.num_points = SetEntry(@, n, Fin(reg.num_points)),
                                   !.r2_score = SetEntry(@, n, reg.scores.r2),
                                   !.mse_score = SetEntry(@, n, reg.scores.mse)]
                   ELSE [mc EXCEPT !.num_points = SetEntry(@, n, Fin(reg.num_points)),
                                   !.slope = SetEntry(@, n, reg.slope),
                                   !.intercept = SetEntry(@, n, Fin(reg.intercept)),
                                   !.r2_score = SetEntry(@, n, reg.scores.r2),
                                   !.mse_score = SetEntry(@, n, reg.scores.mse)]
          /\ probe' = [probe EXCEPT
                          !.filter_work = @ + (IF f.filtered THEN 1 ELSE 0),
                          !.reg_calls = @ + 1,
                          !.sample = [n |-> n, valid_data |-> f.valid_data, index |-> reg.index,
                                      y |-> reg.y]]
    /\ steps' = <<"filter_outliers", "run_regression">>
    /\ UNCHANGED <<pc, args, plant, reanalysis_monthly_daily, reanalysis_por_avg,
                   long_term_losses, num_sim, reanal_subset, loop, results, pyState>>

\* a direct call of sample_long_term_reanalysis(n, r)
SampleLongTermReanalysisCall(n, r) ==
    /\ pc = "idle"
    /\ \E lt \in {sample_long_term_reanalysis(reanalysis_monthly_daily, args, n, r, npState)} :
          /\ error' = lt.error
          /\ npState' = lt.state
          /\ probe' = [probe EXCEPT !.lt = [n |-> n, r |-> r, rows |-> lt.rows, before |-> npState]]
    /\ steps' = <<"sample_long_term_reanalysis">>
    /\ UNCHANGED <<pc, args, plant, monthly_daily, reanalysis_monthly_daily, reanalysis_por_avg,
                   outlier_filtering, long_term_losses, num_sim, reanal_subset, mc, loop,
                   results, pyState>>

-----------------------------------------------------------------------------
(* Inputs *)

DefaultRanges == [windiness |-> <<1, 2>>, loss_max |-> <<10, 12>>, max_power_filter |-> <<80, 82>>]

\* ranges whose low bound exceeds the high bound
BadRanges ==
    {[DefaultRanges EXCEPT !.windiness = <<2, 1>>],
     [DefaultRanges EXCEPT !.loss_max = <<12, 10>>],
     [DefaultRanges EXCEPT !.max_power_filter = <<82, 80>>]}

\* the constructor's arguments: uncertainties in steps of 5%, ranges in years and whole percent,
\* the NaN threshold in 1/1000
MkArgs(tr, rm, rt, rw, rg) ==
    [time_resolution |-> tr, reg_model |-> rm, reg_temperature |-> rt, reg_winddirection |-> rw,
     uncertainty_meter |-> 1, uncertainty_losses |-> 1,
     uncertainty_windiness |-> rg.windiness,
     uncertainty_loss_max |-> rg.loss_max,
     uncertainty_max_power_filter |-> rg.max_power_filter,
     uncertainty_wind_bin_thresh |-> <<1, 3>>,
     uncertainty_nan_energy |-> 10]

\* every combination of the four validated inputs (an invalid value of each among them), and the
\* invalid ranges with otherwise valid inputs
CtorArgs ==
    {MkArgs(tr, rm, rt, rw, DefaultRanges) :
        tr \in {"M", "D", "H"}, rm \in {"lin", "gbm", "etr", "gam", "svm"},
        rt \in {"Y", "N", "X"}, rw \in {"Y", "N", "X"}}
    \cup {MkArgs(tr, "lin", "N", "N", rg) : tr \in {"M", "D"}, rg \in BadRanges}

NoHole == [product |-> "none", at |-> 0]

MkPlant(unit, products, start, len, curtail_len, hole, partial) ==
    [unit |-> unit, products |-> products,
     meter_start |-> start, meter_len |-> len, meter_freq |-> "10T",
     curtail_len |-> curtail_len,
     rean_start |-> 0, rean_len |-> start + len,
     hole |-> hole, short |-> [product |-> "none", from |-> 0],
     partial |-> partial, nan_rows |-> {},
     loss_base |-> 0, loss_step |-> 4, capacity |-> 5000]

ProductSets == {{"ncep2", "merra2", "erai"}, {"ncep2", "merra2", "erai", "era5"}, {"ncep2", "merra2"}}

\* the plants the constructor is tried on: monthly series of up to MaxMonths months, daily series of
\* a leap year and a day
PlantsInit ==
    {MkPlant("M", ps, 2, len, len - gap, h, pa) :
        ps \in ProductSets, len \in {1, 12, MaxMonths}, gap \in {0, 1},
        h \in {NoHole, [product |-> "erai", at |-> 3], [product |-> "era5", at |-> 3]},
        pa \in {{}, {"first", "last"}}}
    \cup {MkPlant("D", {"ncep2", "merra2", "erai"}, 0, 367, 367, NoHole, {}),
          MkPlant("D", {"ncep2", "merra2", "erai", "era5"}, 0, 367, 367,
                  [product |-> "era5", at |-> 3], {})}
    \* monthly series whose first two months, or whose first month only, were reported partly
    \cup {MkPlant("M", {"ncep2", "merra2", "erai"}, 2, len, len, NoHole, pa) :
             len \in {2, 12}, pa \in {{"first", "second"}, {"first"}, {"second"}}}

-----------------------------------------------------------------------------
(* The constructor alone, on every combination of its inputs *)

InitInit ==
    /\ Unconstructed
    /\ probe = NoProbe
    /\ plant \in PlantsInit
    /\ npState = 0
    /\ pyState = 0

NextInit ==
    \E a \in CtorArgs :
        /\ a.time_resolution \in {"M", "D"} => a.time_resolution = plant.unit
        /\ Construct(a)

SpecInit == InitInit /\ [][NextInit]_vars

-----------------------------------------------------------------------------
(* The long-term loss baseline alone: construction, the analyst's flags,   *)
(* and direct calls of calculate_long_term_losses                          *)

\* the plants: monthly series of 12 and of MaxMonths months; daily series of a leap year, of a
\* leap year and a day, and of a common year
PlantsLosses ==
    {MkPlant("M", {"ncep2", "merra2", "erai"}, 2, len, len, NoHole, {}) : len \in {12, MaxMonths}}
    \cup {MkPlant("D", {"ncep2", "merra2", "erai"}, 0, len, len, NoHole, {}) : len \in {366, 367}}
    \cup {MkPlant("D", {"ncep2", "merra2", "erai"}, 366, 365, 365, NoHole, {})}
    \* plants that lose half of their gross energy to availability in every period
    \cup {[MkPlant(unit.tr, {"ncep2", "merra2", "erai"}, 0, unit.len, unit.len, NoHole, {})
              EXCEPT !.loss_base = 50, !.loss_step = 0] :
                unit \in {[tr |-> "M", len |-> 12], [tr |-> "D", len |-> 366]}}

\* the rows the analyst may flag
MarkRows == {1, 2}

InitLosses ==
    /\ Unconstructed
    /\ probe = NoProbe
    /\ plant \in PlantsLosses
    /\ npState = 0
    /\ pyState = 0

NextLosses ==
    \/ Construct(MkArgs(plant.unit, "lin", "N", "N", DefaultRanges))
    \/ \E i \in MarkRows, flag \in {"availability_typical", "curtailment_typical"} : MarkAtypical(i, flag)
    \/ CalculateLongTermLossesCall

SpecLosses == InitLosses /\ [][NextLosses]_vars

\* the distinct calendar keys among the rows flagged by `flag`
KeysCovered(df, tr, flag) ==
    Cardinality({CalendarKey(tr, df[i]) : i \in {j \in 1..Len(df) : df[j][flag]}})

\* a step that executes calculate_long_term_losses
LossesStep ==
    /\ pc \in {"idle", "losses"}
    /\ steps' # <<>>
    /\ steps'[Len(steps')] = "calculate_long_term_losses"

\* C2: calculate_long_term_losses raises whenever the rows flagged typical for availability, or
\* those flagged typical for curtailment, cover fewer than 12 calendar months (monthly) or fewer
\* than 366 (month, day) keys (daily), and then leaves the long-term loss baseline as it was;
\* with full coverage of both it raises nothing and assigns the pair (availability, curtailment).
C2_CoverageErrorOrBaseline ==
    [][LossesStep =>
          LET tr == args.time_resolution
              required == IF tr = "M" THEN 12 ELSE 366
          IN  IF \/ KeysCovered(monthly_daily, tr, "availability_typical") < required
                 \/ KeysCovered(monthly_daily, tr, "curtailment_typical") < required
              THEN error' = "Exception" /\ long_term_losses' = long_term_losses
              ELSE error' = "none" /\ Len(long_term_losses') = 2]_vars

\* C2 witness: a daily table of a common year (365 calendar days) made the call raise, and no
\* baseline was assigned
C2_Witness ==
    /\ steps = <<"calculate_long_term_losses">>
    /\ args.time_resolution = "D"
    /\ Len(monthly_daily) = 365
    /\ error = "Exception"
    /\ long_term_losses = NoLosses

\* a monthly table with a month flagged atypical for curtailment only made the call raise
C2_MonthlyCurtailmentRaised ==
    /\ steps = <<"calculate_long_term_losses">>
    /\ args.time_resolution = "M"
    /\ KeysCovered(monthly_daily, "M", "availability_typical") = 12
    /\ KeysCovered(monthly_daily, "M", "curtailment_typical") = 11
    /\ error = "Exception"

\* a call with full coverage assigned the pair
C2_Assigned ==
    /\ steps = <<"calculate_long_term_losses">>
    /\ error = "none"
    /\ Len(long_term_losses) = 2

-----------------------------------------------------------------------------
(* The wind direction alone: the two places that derive it, applied to a   *)
(* mean wind vector                                                        *)

\* the mean wind vectors tried: the eight compass directions at every speed up to WindMax, and calm
WindVectors ==
    {<<u, v>> \in (-WindMax..WindMax) \X (-WindMax..WindMax) : u = 0 \/ v = 0 \/ u = v \/ u = -v}

InitWd ==
    /\ Unconstructed
    /\ plant = MkPlant("M", {"ncep2", "merra2", "erai"}, 2, 12, 12, NoHole, {})
    /\ npState = 0
    /\ pyState = 0
    /\ \E w \in WindVectors, tr \in {"M", "D"} :
          probe = [u |-> w[1], v |-> w[2], time_resolution |-> tr,
                   wd_aggregation |-> NaN, wd_long_term |-> NaN]

\* process_reanalysis_data derives the direction of the vector
WdAggregation ==
    /\ probe.wd_aggregation = NaN
    /\ probe' = [probe EXCEPT !.wd_aggregation = Fin(wd_aggregation(probe.u, probe.v))]
    /\ UNCHANGED <<pc, error, args, plant, steps, monthly_daily, reanalysis_monthly_daily,
                   reanalysis_por_avg, outlier_filtering, long_term_losses, num_sim,
                   reanal_subset, mc, loop, results, npState, pyState>>

\* sample_long_term_reanalysis derives the direction of the vector
WdLongTerm ==
    /\ probe.wd_long_term = NaN
    /\ probe' = [probe EXCEPT !.wd_long_term = Fin(wd_long_term(probe.u, probe.v))]
    /\ UNCHANGED <<pc, error, args, plant, steps, monthly_daily, reanalysis_monthly_daily,
                   reanalysis_por_avg, outlier_filtering, long_term_losses, num_sim,
                   reanal_subset, mc, loop, results, npState, pyState>>

NextWd == WdAggregation \/ WdLongTerm

SpecWd == InitWd /\ [][NextWd]_vars

\* both places have derived the direction of the vector (u, v)
WdDerived(u, v) ==
    /\ probe.u = u
    /\ probe.v = v
    /\ probe.wd_aggregation # NaN
    /\ probe.wd_long_term # NaN

\* C8 (as claimed): the direction derived from (u, v) is 180 degrees for u=0, v=1 and 90 degrees
\* for u=1, v=0, in the reanalysis aggregation and in the long-term sampling alike.
C8_Direction180And90 ==
    /\ WdDerived(0, 1) => probe.wd_aggregation = Fin(180) /\ probe.wd_long_term = Fin(180)
    /\ WdDerived(1, 0) => probe.wd_aggregation = Fin(90) /\ probe.wd_long_term = Fin(90)

\* C8 (amended): the direction derived from (u, v) is 180 degrees for u=0, v=1 and 270 degrees
\* for u=1, v=0 (and 90 degrees for u=-1, v=0), in the reanalysis aggregation and in the
\* long-term sampling alike.
C8_Direction180And270 ==
    /\ WdDerived(0, 1) => probe.wd_aggregation = Fin(180) /\ probe.wd_long_term = Fin(180)
    /\ WdDerived(1, 0) => probe.wd_aggregation = Fin(270) /\ probe.wd_long_term = Fin(270)
    /\ WdDerived(-1, 0) => probe.wd_aggregation = Fin(90) /\ probe.wd_long_term = Fin(90)

\* C8 witness: both places derived the direction of u=1, v=0
C8_Witness ==
    /\ WdDerived(1, 0)
    /\ probe.wd_aggregation = Fin(270)
    /\ probe.wd_long_term = Fin(270)

-----------------------------------------------------------------------------
(* The engine in use: construction, seeding, runs and direct filter calls  *)

\* the instrumentation of the calls: the seed set since the last draw (-1: none), the seed the
\* run in progress started from, the number of runs, the result tables of the completed runs
\* by (seed, N, products), the number of times the filtering was done, what the direct
\* filter_outliers calls returned, and the quantities behind the stored result table
ProbeRun ==
    [seeded |-> -1, run_seed |-> -1, runs |-> 0, tables |-> <<>>, filter_work |-> 0,
     returns |-> <<>>, stored |-> <<>>, sample |-> <<>>, keys_at_run |-> {}, reg_calls |-> 0]

\* monthly plants: a year and a month of data with low losses; a year with losses at the
\* threshold and a month of missing data, of which one row passes a threshold of 11% or 12% and
\* none a threshold of 10%; a plant whose first month is partial; a plant of low capacity with a
\* fourth product
PlantsRun ==
    {MkPlant("M", {"ncep2", "merra2", "erai"}, 12, MaxMonths, MaxMonths, NoHole, {}),
     [MkPlant("M", {"ncep2", "merra2", "erai"}, 12, 12, 12, NoHole, {})
        EXCEPT !.loss_base = 10, !.nan_rows = {18}],
     MkPlant("M", {"ncep2", "merra2", "erai"}, 12, 12, 12, NoHole, {"first"}),
     [MkPlant("M", {"ncep2", "merra2", "erai", "jra55"}, 12, MaxMonths, MaxMonths, NoHole, {})
        EXCEPT !.capacity = 100]}

RunArgs ==
    {MkArgs("M", "lin", "N", "N", DefaultRanges)}
    \cup {MkArgs("M", "lin", "N", "N", rg) : rg \in BadRanges}

Seeds == {1}

Subsets == {<<"ncep2", "merra2">>, <<"erai">>}

\* the product lists run() is called with on a plant
SubsetsOf(pl) == IF "jra55" \in pl.products THEN {<<"jra55">>} ELSE Subsets

\* states of Python's generator when the engine is constructed (it is seeded by the interpreter)
PyStates == {0, 8}

InitRun ==
    /\ Unconstructed
    /\ probe = ProbeRun
    /\ plant \in PlantsRun
    /\ npState = 0
    /\ pyState \in PyStates

NextRun ==
    \/ \E a \in RunArgs : Construct(a)
    \/ \E k \in Seeds : Seed(k)
    \/ \E n \in 1..MaxSim, subset \in SubsetsOf(plant) : Run(n, subset)
    \/ RunLongTermLosses
    \/ RunSetup
    \/ Iteration
    \/ StoreResults
    \/ \E n \in 0..(MaxSim - 1) : FilterOutliersCall(n)
    \/ \E n \in 0..(MaxSim - 1) : RunRegressionCall(n)

SpecRun == InitRun /\ [][NextRun]_vars

-----------------------------------------------------------------------------
(* One run() on a plant with daily data, with the linear model and with    *)
(* the other regression models                                             *)

\* daily plants: a leap year and a day of data; the same with higher losses
PlantsDaily ==
    {MkPlant("D", {"ncep2", "merra2", "erai"}, 0, 367, 367, NoHole, {}),
     [MkPlant("D", {"ncep2", "merra2", "erai"}, 0, 367, 367, NoHole, {}) EXCEPT !.loss_base = 2]}

DailyArgs == {MkArgs("D", rm, "N", "N", DefaultRanges) : rm \in {"lin", "gbm", "etr"}}

InitDaily ==
    /\ Unconstructed
    /\ probe = ProbeRun
    /\ plant \in PlantsDaily
    /\ npState = 0
    /\ pyState = 0

\* an engine is constructed and run once, from the generator's initial state
NextDaily ==
    \/ \E a \in DailyArgs : Construct(a)
    \/ \E n \in 1..MaxSim, subset \in Subsets : results = NoResults /\ Run(n, subset)
    \/ RunLongTermLosses
    \/ RunSetup
    \/ Iteration
    \/ StoreResults

SpecDaily == InitDaily /\ [][NextDaily]_vars

-----------------------------------------------------------------------------
(* Direct calls of sample_long_term_reanalysis on a constructed engine     *)

\* the longest window asked for, in years
MaxYears == 3

ProbeLt == [lt |-> <<>>] @@ ProbeRun

\* monthly plants with 25 months of reanalysis data, one with a fourth product that covers the
\* last 3 months only; daily plants with a leap year and a day of reanalysis data, with a leap
\* year followed by a common year, and with a fourth product that covers the last 60 days only
PlantsLt ==
    {MkPlant("M", {"ncep2", "merra2", "erai"}, 12, MaxMonths, MaxMonths, NoHole, {}),
     [MkPlant("M", {"ncep2", "merra2", "erai", "era5"}, 12, MaxMonths, MaxMonths, NoHole, {})
        EXCEPT !.short = [product |-> "era5", from |-> 12 + MaxMonths - 3]],
     MkPlant("D", {"ncep2", "merra2", "erai"}, 0, 367, 367, NoHole, {}),
     MkPlant("D", {"ncep2", "merra2", "erai"}, 366, 365, 365, NoHole, {}),
     [MkPlant("D", {"ncep2", "merra2", "erai", "era5"}, 0, 367, 367, NoHole, {})
        EXCEPT !.short = [product |-> "era5", from |-> 367 - 60]]}

InitLt ==
    /\ Unconstructed
    /\ probe = ProbeLt
    /\ plant \in PlantsLt
    /\ npState = 0
    /\ pyState = 0

\* an engine is constructed, the generator seeded or not, and the function called once
NextLt ==
    \/ Construct(MkArgs(plant.unit, "lin", "N", "N", DefaultRanges))
    \/ \E k \in Seeds : probe.lt = <<>> /\ Seed(k)
    \/ \E n \in 1..MaxYears, r \in plant.products :
          probe.lt = <<>> /\ SampleLongTermReanalysisCall(n, r)

SpecLt == InitLt /\ [][NextLt]_vars

-----------------------------------------------------------------------------
(* Claims about construction *)

ConfigErrors == {"time_resolution", "reg_temperature", "reg_winddirection", "reg_model", "monthly_model"}

InvalidConfig(a) ==
    \/ a.time_resolution # "M" /\ a.time_resolution # "D"
    \/ a.reg_temperature # "Y" /\ a.reg_temperature # "N"
    \/ a.reg_winddirection # "Y" /\ a.reg_winddirection # "N"
    \/ ~(a.reg_model = "lin" \/ a.reg_model = "gbm" \/ a.reg_model = "etr" \/ a.reg_model = "gam")
    \/ a.time_resolution = "M" /\ a.reg_model # "lin"

\* C1: a constructor call with an invalid time resolution, flag or regression model, or with a
\* non-linear model at monthly resolution, ends in a configuration error with no preprocessing
\* step run and no table built; every other combination of the four inputs passes validation
\* (its preprocessing starts).
C1_ConfigErrorsAtConstruction ==
    pc # "new" =>
        IF InvalidConfig(args)
        THEN pc = "ctor_error" /\ error \in ConfigErrors /\ steps = <<>> /\ monthly_daily = <<>>
        ELSE error \notin ConfigErrors /\ steps # <<>>

\* C1 witness: a machine-learning model at monthly resolution was rejected
C1_Witness ==
    /\ pc = "ctor_error"
    /\ error = "monthly_model"
    /\ args.time_resolution = "M"
    /\ args.reg_model = "gbm"
    /\ steps = <<>>

\* C10 (as claimed): after construction every row of the base table has a finite gross energy and a
\* finite wind speed for every reanalysis product the plant supplies.
C10_FiniteForEverySuppliedProduct ==
    pc = "idle" =>
        \A i \in 1..Len(monthly_daily) :
            /\ isfinite(monthly_daily[i].gross_energy_gwh)
            /\ \A p \in plant.products : isfinite(monthly_daily[i].rean[<<p, "">>])


-----------------------------------------------------------------------------
(* Claims about the engine in use *)

LastStep == IF steps = <<>> THEN "none" ELSE steps[Len(steps)]

\* a direct filter_outliers call for simulation n has just returned
FilterCallStep(n) ==
    /\ pc = "idle"
    /\ steps' = <<"filter_outliers">>
    /\ n \in DOMAIN probe'.returns
    /\ n \notin DOMAIN probe.returns \/ probe'.returns[n] # probe.returns[n]

\* a direct run_regression call for simulation n has just returned
RegressionCallStep(n) ==
    /\ pc = "idle"
    /\ steps' = <<"filter_outliers", "run_regression">>
    /\ probe'.reg_calls = probe.reg_calls + 1
    /\ probe'.sample.n = n

\* an iteration of the loop for simulation n
IterationStep(n) ==
    /\ pc = "loop"
    /\ loop.n = n
    /\ n < num_sim

\* C3: direct filter_outliers calls for two simulation indices with the same (product,
\* max-power-filter fraction, loss threshold) triple return the same table; and a call (direct, or
\* made by an iteration) whose triple is already a key of the memo dictionary does no filtering,
\* returns the stored entry and leaves the dictionary unchanged.
C3_SameTripleSameTableNoWork ==
    /\ [](\A i \in DOMAIN probe.returns : \A j \in DOMAIN probe.returns :
             probe.returns[i].key = probe.returns[j].key
                 => probe.returns[i].valid_data = probe.returns[j].valid_data)
    /\ [][\A n \in 0..(MaxSim - 1) :
             /\ (FilterCallStep(n) /\ FilterKey(mc, n) \in DOMAIN outlier_filtering)
                    => /\ outlier_filtering' = outlier_filtering
                       /\ probe'.filter_work = probe.filter_work
                       /\ probe'.returns[n].valid_data = outlier_filtering[FilterKey(mc, n)]
             /\ (IterationStep(n) /\ FilterKey(mc, n) \in DOMAIN outlier_filtering)
                    => /\ outlier_filtering' = outlier_filtering
                       /\ probe'.filter_work = probe.filter_work]_vars

\* C3 witness: two direct calls for simulations with the same triple returned the same non-empty
\* table, and the filtering was not done more often than there are entries
C3_Witness ==
    /\ DOMAIN probe.returns = {0, 1}
    /\ probe.returns[0].key = probe.returns[1].key
    /\ probe.returns[0].valid_data = probe.returns[1].valid_data
    /\ probe.returns[0].valid_data # <<>>
    /\ probe.filter_work = Cardinality(DOMAIN outlier_filtering)

\* C4: while the loop runs, the iterations executed so far are 0, 1, ... in increasing order, once
\* each; the result table is stored after iteration N-1 and has N rows; a failing step of the
\* loop ends the run with its error, discards the loop and leaves self.results as it was; and
\* after a failure nothing runs but a direct call or a new run().
C4_IterationsInOrderOrAbort ==
    /\ [](pc = "loop" => /\ loop.n <= num_sim
                         /\ loop.log = [i \in 1..loop.n |-> i - 1])
    /\ [][/\ (pc = "loop" /\ LastStep' = "store_results")
                => /\ loop.log = [i \in 1..num_sim |-> i - 1]
                   /\ Len(results') = num_sim
                   /\ pc' = "idle"
          /\ (pc = "loop" /\ error' # "none")
                => /\ pc' = "idle"
                   /\ loop' = NoLoop
                   /\ results' = results
          /\ (pc = "loop" /\ error' = "none" /\ LastStep' # "store_results")
                => /\ loop'.n = loop.n + 1
                   /\ results' = results
          /\ (pc = "idle" /\ error # "none")
                => /\ pc' \in {"idle", "losses"}
                   /\ results' = results]_vars

\* C4 witness: the second iteration of a first run failed in the regression after the first one
\* had completed, and no result table is stored
C4_Witness ==
    /\ pc = "idle"
    /\ error = "ValueError"
    /\ probe.runs = 1
    /\ Len(steps) = 12
    /\ LastStep = "run_regression"
    /\ results = NoResults

\* C5 (as claimed): with a fixed seed, runs with the same configuration, data and N give the same
\* result table.
C5_SameSeedSameTable ==
    \A key \in DOMAIN probe.tables : Cardinality(probe.tables[key]) <= 1

BadRange(a) ==
    \/ a.uncertainty_windiness[1] > a.uncertainty_windiness[2]
    \/ a.uncertainty_loss_max[1] > a.uncertainty_loss_max[2]
    \/ a.uncertainty_max_power_filter[1] > a.uncertainty_max_power_filter[2]

\* C6 (as claimed): a windiness, max-loss or max-power-filter range whose low bound exceeds its high
\* bound is rejected by the constructor: no engine is constructed with such a range.
C6_BadRangeRejectedAtConstruction ==
    (pc # "new" /\ BadRange(args)) => pc = "ctor_error"

\* C6 (amended): the constructor validates the time resolution, the two flags and the regression
\* model only; a range whose low bound exceeds its high bound is accepted at construction, and
\* every run() of such an engine that reaches the sampler fails there with the generator's
\* error, before any iteration, so that no result table is ever stored.
C6_BadRangeFailsInRun ==
    (pc # "new" /\ BadRange(args)) =>
        /\ pc \notin {"ctor_error", "loop"}
        /\ error \notin ConfigErrors
        /\ results = NoResults
        /\ LastStep = "setup_monte_carlo_inputs" => error = "ValueError" /\ pc = "idle"

\* C6 witness: an engine constructed with a windiness range of (2, 1) failed in the sampler
C6_Witness ==
    /\ args.time_resolution = "M"
    /\ args.uncertainty_windiness = <<2, 1>>
    /\ pc = "idle"
    /\ steps = <<"run", "calculate_long_term_losses", "setup_monte_carlo_inputs">>
    /\ error = "ValueError"

InRange(x, range) == x \in range[1]..range[2]

\* C7: when the sampler has completed (the loop is running), each of its arrays has num_sim
\* entries, every max-power-filter fraction is a whole percent within its configured range, every
\* windiness window a whole number of years within its range, and every loss threshold a whole
\* percent within its range.
C7_SamplesWithinRanges ==
    pc = "loop" =>
        /\ \A name \in {"max_power_filter", "wind_bin_thresh", "metered_energy_fraction",
                        "loss_fraction", "num_years_windiness", "loss_threshold",
                        "reanalysis_product"} : Len(mc[name]) = num_sim
        /\ \A i \in 1..num_sim :
              /\ InRange(mc.max_power_filter[i], args.uncertainty_max_power_filter)
              /\ InRange(mc.num_years_windiness[i], args.uncertainty_windiness)
              /\ InRange(mc.loss_threshold[i], args.uncertainty_loss_max)

\* C7 witness: the sampler drew two simulations with different windiness windows and different
\* loss thresholds
C7_Witness ==
    /\ pc = "loop"
    /\ num_sim = 2
    /\ mc.num_years_windiness[1] # mc.num_years_windiness[2]
    /\ mc.loss_threshold[1] # mc.loss_threshold[2]

\* the outputs of a simulation, from the summed long-term and period-of-record gross energy, the
\* baseline and the loss draw
OutputsAre(row, gross_lt, gross_por, baseline, loss_draw) ==
    LET avail == (baseline[1] * loss_draw) \div BiasScale
        curt == (baseline[2] * loss_draw) \div BiasScale
    IN  /\ row.avail_pct = Fin(avail)
        /\ row.curt_pct = Fin(curt)
        /\ row.aep_GWh = Fin((Val(gross_lt) * (PctScale - avail)) \div PctScale)
        /\ row.lt_por_ratio = (IF Val(gross_por) = 0 THEN NaN
                               ELSE Fin((Val(gross_lt) * RatioScale) \div Val(gross_por)))

\* C9: for every simulation n, in the loop's output arrays and in the stored result table, the
\* availability and curtailment losses are the baseline scalars times the loss draw of n, the AEP
\* is the summed long-term gross energy times (1 - availability loss) - the curtailment loss is
\* not subtracted -, and the ratio is long-term over period-of-record gross energy.
C9_AepFromGrossAndAvailability ==
    /\ pc = "loop" =>
          \A i \in 1..loop.n :
              OutputsAre(sim_results(loop, loop.n)[i], loop.gross_lt[i], loop.gross_por[i],
                         long_term_losses, mc.loss_fraction[i])
    /\ results # NoResults =>
          \A i \in 1..Len(results) :
              OutputsAre(results[i], probe.stored.gross_lt[i], probe.stored.gross_por[i],
                         probe.stored.baseline, probe.stored.loss_fraction[i])

\* C9 witness: a stored table of two simulations with a positive AEP and a positive curtailment loss
C9_Witness ==
    /\ results # NoResults
    /\ Len(results) = 2
    /\ \A i \in 1..2 : /\ Val(results[i].aep_GWh) > 0
                       /\ Val(results[i].curt_pct) > 0
                       /\ Val(probe.stored.gross_lt[i]) > Val(results[i].aep_GWh)

-----------------------------------------------------------------------------
(* Claims about the regression sample *)

\* C11: the sample run_regression fits on has round(0.8 * k) rows of the k rows of the filtered
\* table, all at distinct positions of that table, and that count is recorded as the number of
\* points of the simulation; a table of one row gives the sample of that row and the count 1.
C11_SubsampleOfFourFifths ==
    probe.sample # <<>> =>
        LET k == Len(probe.sample.valid_data)
            index == probe.sample.index
            count == Len(index)
        IN  /\ 10 * count - 5 <= 8 * k /\ 8 * k < 10 * count + 5
            /\ \A m \in 1..count : index[m] \in 1..k
            /\ Cardinality({index[m] : m \in 1..count}) = count
            /\ mc.num_points[probe.sample.n + 1] = Fin(count)
            /\ k = 1 => index = <<1>> /\ mc.num_points[probe.sample.n + 1] = Fin(1)

\* C11 witness: an iteration fitted the regression on the single row of its filtered table
C11_Witness ==
    /\ probe.sample # <<>>
    /\ Len(probe.sample.valid_data) = 1
    /\ probe.sample.index = <<1>>
    /\ error = "none"
    /\ mc.num_points[probe.sample.n + 1] = Fin(1)

\* a filtered table of thirteen rows was sampled down to ten
C11_LargeTableSampled ==
    /\ probe.sample # <<>>
    /\ Len(probe.sample.valid_data) = 13
    /\ Len(probe.sample.index) = 10

-----------------------------------------------------------------------------
(* Claims about the values the sampler can draw *)

\* the values setup_monte_carlo_inputs can draw for one simulation, over the generator's states
AttainableDraws(a, name) ==
    {setup_monte_carlo_inputs(a, 1, <<"ncep2">>, s, 0).mc[name][1] : s \in 0..(NpModulus - 1)}

WholeRange(range) == range[1]..range[2]

\* C12 (as claimed): for each of the three discrete parameters the values that can be drawn are
\* every whole step from the low to the high end of its configured range, both ends included.
C12_BothEndpointsAttainable ==
    (pc = "idle" /\ ~BadRange(args)) =>
        /\ AttainableDraws(args, "max_power_filter") = WholeRange(args.uncertainty_max_power_filter)
        /\ AttainableDraws(args, "loss_threshold") = WholeRange(args.uncertainty_loss_max)
        /\ AttainableDraws(args, "num_years_windiness") = WholeRange(args.uncertainty_windiness)

\* what the sampler can draw: the high end of the max-power-filter range is never drawn
C12_HighFilterEndExcluded ==
    (pc = "idle" /\ ~BadRange(args)) =>
        /\ AttainableDraws(args, "max_power_filter")
              = WholeRange(args.uncertainty_max_power_filter) \ {args.uncertainty_max_power_filter[2]}
        /\ AttainableDraws(args, "loss_threshold") = WholeRange(args.uncertainty_loss_max)
        /\ AttainableDraws(args, "num_years_windiness") = WholeRange(args.uncertainty_windiness)

-----------------------------------------------------------------------------
(* Claims about the order of the stages of run() *)

BuildStepNames ==
    {"process_revenue_meter_energy", "process_loss_estimates", "process_reanalysis_data",
     "trim_monthly_df", "drop_non_finite"}

\* the steps logged belong to a run()
InRun == steps # <<>> /\ steps[1] = "run"

StepCount(name) == Cardinality({i \in 1..Len(steps) : steps[i] = name})

CoverageComplete ==
    LET tr == args.time_resolution
        required == IF tr = "M" THEN 12 ELSE 366
    IN  /\ KeysCovered(monthly_daily, tr, "availability_typical") = required
        /\ KeysCovered(monthly_daily, tr, "curtailment_typical") = required

\* C14: run() never runs a step that builds the base table, and the tables built at construction
\* stay as built; within a run the long-term losses are computed once, as its first step, the
\* sampler draws once, as its second step, and every iteration comes after both; when the
\* typical rows do not cover the calendar, the run ends after the losses step with its error,
\* and that step leaves the sampler's arrays, the generators, the loop and self.results alone.
C14_StagesOnceInOrder ==
    /\ [](InRun =>
            /\ \A i \in 1..Len(steps) : steps[i] \notin BuildStepNames
            /\ StepCount("calculate_long_term_losses") <= 1
            /\ StepCount("setup_monte_carlo_inputs") <= 1
            /\ Len(steps) >= 2 => steps[2] = "calculate_long_term_losses"
            /\ Len(steps) >= 3 => steps[3] = "setup_monte_carlo_inputs"
            /\ pc = "loop" => Len(steps) >= 3
            /\ (Len(steps) >= 2 /\ ~CoverageComplete) =>
                  /\ steps = <<"run", "calculate_long_term_losses">>
                  /\ pc = "idle"
                  /\ error = "Exception")
    /\ [][/\ pc # "new" =>
                /\ monthly_daily' = monthly_daily
                /\ reanalysis_monthly_daily' = reanalysis_monthly_daily
                /\ reanalysis_por_avg' = reanalysis_por_avg
          /\ (pc = "losses" /\ error' # "none") =>
                /\ pc' = "idle"
                /\ results' = results
                /\ mc' = mc /\ loop' = loop /\ npState' = npState /\ pyState' = pyState
                /\ outlier_filtering' = outlier_filtering]_vars

\* C14 witness: the run of a plant with eleven calendar months of data ended at the losses step
C14_Witness ==
    /\ steps = <<"run", "calculate_long_term_losses">>
    /\ ~CoverageComplete
    /\ pc = "idle"
    /\ error = "Exception"
    /\ results = NoResults
    /\ mc = NoSamples

\* a second run of one engine got to its loop
C14_SecondRunInLoop ==
    /\ probe.runs = 2
    /\ pc = "loop"
    /\ loop.n = 1
    /\ StepCount("calculate_long_term_losses") = 1

-----------------------------------------------------------------------------
(* Claims about the content of the cached tables *)

\* the combined loss of a base-table row is strictly below a threshold given in whole percent
\* (the percentages of the table are in 1/PctScale)
LossBelow(r, thresh) ==
    /\ isfinite(r.availability_pct) /\ isfinite(r.curtailment_pct)
    /\ (Val(r.availability_pct) + Val(r.curtailment_pct)) * 100 < thresh * PctScale

\* the positions in the base table of the rows that pass the first filter, in table order
PassingPositions(thresh) ==
    LET pass == {i \in 1..Len(monthly_daily) :
                    LossBelow(monthly_daily[i], thresh) /\ ~monthly_daily[i].nan_flag}
    IN  [m \in 1..Cardinality(pass) |->
            CHOOSE i \in pass : Cardinality({j \in pass : j < i}) = m - 1]

\* the periods of the rows a cached table must hold
ExpectedPeriods(key) ==
    LET pos == PassingPositions(key[3])
        ws == [m \in 1..Len(pos) |-> monthly_daily[pos[m]].rean[<<key[1], "">>]]
        OutOfRange(m) == isfinite(ws[m]) /\ (Val(ws[m]) < 0 \/ Val(ws[m]) > 40)
        Frozen(m) == \E j \in 1..(Len(pos) - 2) :
                        /\ m \in j..(j + 2)
                        /\ isfinite(ws[j]) /\ ws[j + 1] = ws[j] /\ ws[j + 2] = ws[j]
    IN  {monthly_daily[pos[m]].ord : m \in {x \in 1..Len(pos) : ~OutOfRange(x) /\ ~Frozen(x)}}

C15_MissingDataRowExcluded ==
    \E key \in DOMAIN outlier_filtering :
        /\ key[3] = 11
        /\ \E i \in 1..Len(monthly_daily) : monthly_daily[i].ord = 18 /\ monthly_daily[i].nan_flag
        /\ Len(outlier_filtering[key]) = 1

\* the base-table row of a period
BaseRow(ord) == monthly_daily[CHOOSE i \in 1..Len(monthly_daily) : monthly_daily[i].ord = ord]

\* C16 (as claimed): in every table of the memo dictionary a row whose base-table energy is
\* negative has energy 0, and every other row has exactly its base-table energy, however large.
C16_OnlyNegativeEnergyClamped ==
    \A key \in DOMAIN outlier_filtering :
        \A i \in 1..Len(outlier_filtering[key]) :
            LET row == outlier_filtering[key][i]
                base == BaseRow(row.ord)
            IN  IF base.energy_gwh < 0 THEN row.energy_gwh = 0
                ELSE row.energy_gwh = base.energy_gwh

\* what the filter does: the energy is also set to 0 when it exceeds what the plant can produce
\* in a period (capacity x 366 x 24 h at monthly resolution, in thousandths of an energy unit)
C16_EnergyOutsideCapacityZeroed ==
    \A key \in DOMAIN outlier_filtering :
        \A i \in 1..Len(outlier_filtering[key]) :
            LET row == outlier_filtering[key][i]
                base == BaseRow(row.ord)
            IN  IF base.energy_gwh < 0 \/ base.energy_gwh * 1000 > plant_capac(plant, args.time_resolution)
                THEN row.energy_gwh = 0
                ELSE row.energy_gwh = base.energy_gwh

-----------------------------------------------------------------------------
(* Claims about the life of the memo dictionary *)

\* the keys a step adds to the memo dictionary
AddedKeys == DOMAIN outlier_filtering' \ DOMAIN outlier_filtering

\* C17: once the engine is constructed, a step never removes or changes an entry of the memo
\* dictionary; it adds at most one, under the triple of the simulation it filters (the iteration
\* of the loop, or the index of a direct call), and never under a key already present; when a
\* run completes, the triple of each of its N simulations is a key, and the run has added at
\* most N keys.
C17_CacheOnlyGrows ==
    [][pc # "new" =>
          /\ \A key \in DOMAIN outlier_filtering :
                /\ key \in DOMAIN outlier_filtering'
                /\ outlier_filtering'[key] = outlier_filtering[key]
          /\ Cardinality(AddedKeys) <= 1
          /\ AddedKeys # {} =>
                IF pc = "loop" THEN AddedKeys = {FilterKey(mc, loop.n)}
                ELSE \E n \in 0..(MaxSim - 1) :
                        /\ FilterCallStep(n) \/ RegressionCallStep(n)
                        /\ AddedKeys = {FilterKey(mc, n)}
          /\ LastStep' = "store_results" =>
                /\ \A n \in 0..(num_sim - 1) : FilterKey(mc, n) \in DOMAIN outlier_filtering'
                /\ Cardinality(DOMAIN outlier_filtering' \ probe.keys_at_run) <= num_sim
                /\ DOMAIN outlier_filtering' \ probe.keys_at_run
                      \subseteq {FilterKey(mc, n) : n \in 0..(num_sim - 1)}]_vars

\* C17 witness: a second run completed on a dictionary that held entries of the first run and of
\* direct calls, kept them, and added an entry
C17_Witness ==
    /\ probe.runs = 2
    /\ LastStep = "store_results"
    /\ probe.keys_at_run # {}
    /\ probe.keys_at_run \subseteq DOMAIN outlier_filtering
    /\ probe.keys_at_run # DOMAIN outlier_filtering
    /\ \E key \in probe.keys_at_run : \A n \in 0..(num_sim - 1) : FilterKey(mc, n) # key

-----------------------------------------------------------------------------
(* Claims about what a step leaves alone *)

\* C18: once the engine is constructed, no step of run() and no direct call of filter_outliers
\* or of run_regression (which calls set_regression_data) changes the base table: its rows and
\* every value of them, the energy values the filter clamps in its copy included, stay as built.
C18_BaseTableNeverChanged ==
    [][pc # "new" => monthly_daily' = monthly_daily]_vars

\* C18 witness: after a completed run and a direct run_regression call the memo dictionary holds
\* a row whose energy the filter set to 0, and the base table still has the row's energy as built
C18_Witness ==
    /\ results # NoResults
    /\ probe.reg_calls = 1
    /\ \E key \in DOMAIN outlier_filtering :
          \E i \in 1..Len(outlier_filtering[key]) :
              /\ outlier_filtering[key][i].energy_gwh = 0
              /\ BaseRow(outlier_filtering[key][i].ord).energy_gwh = 960

SampledArrays ==
    {"max_power_filter", "wind_bin_thresh", "metered_energy_fraction", "loss_fraction",
     "num_years_windiness", "loss_threshold", "reanalysis_product"}

DiagnosticArrays == {"num_points", "slope", "intercept", "r2_score", "mse_score"}

OutputArrays == {"aep_GWh", "avail_pct", "curt_pct", "lt_por_ratio"}

\* C19: an iteration n of the loop leaves every sampled parameter array and the long-term loss
\* baseline unchanged, changes no entry but entry n of the diagnostic arrays and (when it
\* completes) of the output arrays, and adds at most one entry to the memo dictionary.
C19_IterationWritesOnlyItsEntry ==
    [][\A n \in 0..(MaxSim - 1) :
          IterationStep(n) =>
              /\ \A name \in SampledArrays : mc'[name] = mc[name]
              /\ long_term_losses' = long_term_losses
              /\ \A name \in DiagnosticArrays :
                    /\ Len(mc'[name]) = Len(mc[name])
                    /\ \A i \in 1..num_sim : i # n + 1 => mc'[name][i] = mc[name][i]
              /\ pc' = "loop" =>
                    \A name \in OutputArrays :
                        /\ Len(loop'[name]) = Len(loop[name])
                        /\ \A i \in 1..num_sim : i # n + 1 => loop'[name][i] = loop[name][i]
              /\ Cardinality(AddedKeys) <= 1]_vars

\* C19 witness: the second iteration of a run has completed and written its entries, and the
\* entries of the first iteration are in place
C19_Witness ==
    /\ pc = "loop"
    /\ num_sim = 2
    /\ loop.n = 2
    /\ \A name \in OutputArrays : loop[name][1] # Unassigned /\ loop[name][2] # Unassigned
    /\ \A name \in DiagnosticArrays : mc[name][1] # Unassigned /\ mc[name][2] # Unassigned
    /\ loop.aep_GWh[1] # loop.aep_GWh[2]

-----------------------------------------------------------------------------
(* Claims about the draws of one simulation *)

Abs(x) == IF x < 0 THEN -x ELSE x

Max(x, y) == IF x < y THEN y ELSE x

\* C20: in the regression sample of simulation n the energy of every row is scaled by the one
\* meter draw of n and its availability and curtailment by the one loss draw of n; both recorded
\* long-term losses of n are the baseline scalars times that same loss draw, so that
\* availability %[n] x baseline curtailment and curtailment %[n] x baseline availability agree
\* (up to the rounding of the recorded values, which is below one unit of either).
C20_OneDrawPerSimulation ==
    /\ probe.sample # <<>> =>
          LET n == probe.sample.n
              meter == mc.metered_energy_fraction[n + 1]
              loss == mc.loss_fraction[n + 1]
          IN  \A m \in 1..Len(probe.sample.index) :
                  LET r == probe.sample.valid_data[probe.sample.index[m]]
                      gross == r.energy_gwh * meter
                                  + (Val(r.availability_gwh) + Val(r.curtailment_gwh)) * loss
                  IN  probe.sample.y[m] = IF args.time_resolution = "M"
                                          THEN (gross * 30) \div r.num_days_expected
                                          ELSE gross
    /\ pc = "loop" =>
          \A i \in 1..loop.n :
              LET loss == mc.loss_fraction[i]
              IN  /\ loop.avail_pct[i] = Fin((long_term_losses[1] * loss) \div BiasScale)
                  /\ loop.curt_pct[i] = Fin((long_term_losses[2] * loss) \div BiasScale)
                  /\ Abs(Val(loop.avail_pct[i]) * long_term_losses[2]
                            - Val(loop.curt_pct[i]) * long_term_losses[1])
                        < Max(long_term_losses[1], long_term_losses[2])

\* C20 witness: a completed iteration whose loss draw and meter draw both differ from 1, with
\* positive recorded losses, on a sample with a row that has both kinds of loss
C20_Witness ==
    /\ pc = "loop"
    /\ loop.n >= 1
    /\ probe.sample # <<>>
    /\ probe.sample.n = loop.n - 1
    /\ mc.loss_fraction[loop.n] # BiasScale
    /\ mc.metered_energy_fraction[loop.n] # BiasScale
    /\ mc.loss_fraction[loop.n] # mc.metered_energy_fraction[loop.n]
    /\ Val(loop.avail_pct[loop.n]) > 0 /\ Val(loop.curt_pct[loop.n]) > 0
    /\ \E m \in 1..Len(probe.sample.index) :
          LET r == probe.sample.valid_data[probe.sample.index[m]]
          IN  Val(r.availability_gwh) > 0 /\ Val(r.curtailment_gwh) > 0

-----------------------------------------------------------------------------
(* Claims about the order of the steps of an iteration *)

\* the steps an action has added to the log
StepsAdded == SubSeq(steps', Len(steps) + 1, Len(steps'))

IsPrefix(a, b) == Len(a) <= Len(b) /\ SubSeq(b, 1, Len(a)) = a

AfterTheFit == <<"gross_lt", "gross_por", "sample_long_term_losses", "record">>

FitThenDraw == <<"filter_outliers", "run_regression", "sample_long_term_reanalysis">> \o AfterTheFit

DrawThenFit == <<"sample_long_term_reanalysis", "filter_outliers", "run_regression">> \o AfterTheFit

\* the row of the filtered table at which the stretch left out of the regression sample starts,
\* when the sample is drawn in generator state s
FirstLeftOut(s) == (NpOut(NpNext(s)) % Len(probe'.sample.valid_data)) + 1

SampleIndex == {probe'.sample.index[m] : m \in 1..Len(probe'.sample.index)}

\* C13 as stated: whatever the regression model, an iteration runs the cache lookup and the fit
\* first, then the draw of the long-term averages, then the two predictions, the loss sampling
\* and the recording of its outputs.
C13_FitFirstForEveryModel ==
    [][\A n \in 0..(MaxSim - 1) :
          IterationStep(n) =>
              /\ IsPrefix(StepsAdded, FitThenDraw)
              /\ error' = "none" => StepsAdded = FitThenDraw]_vars

\* C13 as amended: with the linear model an iteration runs the cache lookup and the fit, then the
\* draw of the long-term averages; with a machine-learning model it runs the draw of the
\* long-term averages first, then the cache lookup and the fit, so that the regression sample is
\* drawn from the generator as the long-term draw left it; in both cases the prediction on the
\* long-term inputs, the prediction on the period-of-record inputs, the loss sampling and the
\* recording of the outputs follow in that order.
C13_OrderDependsOnModel ==
    [][\A n \in 0..(MaxSim - 1) :
          IterationStep(n) =>
              IF args.reg_model = "lin"
              THEN /\ IsPrefix(StepsAdded, FitThenDraw)
                   /\ error' = "none" => StepsAdded = FitThenDraw
                   /\ FirstLeftOut(npState) \notin SampleIndex
              ELSE /\ IsPrefix(StepsAdded, DrawThenFit)
                   /\ error' = "none" =>
                         /\ StepsAdded = DrawThenFit
                         /\ npState' = NpNext(normal(npState, 1, 366).state)
                         /\ FirstLeftOut(normal(npState, 1, 366).state) \notin SampleIndex]_vars

\* C13 witness: the first iteration of a run with a machine-learning model has completed, the
\* long-term draw first
C13_Witness ==
    /\ pc = "loop"
    /\ args.reg_model # "lin"
    /\ loop.n = 1
    /\ steps = <<"run", "calculate_long_term_losses", "setup_monte_carlo_inputs">> \o DrawThenFit
    /\ loop.aep_GWh[1] # Unassigned
    /\ probe.sample # <<>>
    /\ Len(probe.sample.index) = SampleCount(Len(probe.sample.valid_data))
    /\ mc.slope[1] = Unassigned

-----------------------------------------------------------------------------
(* One run() with each combination of the temperature and wind direction   *)
(* flags                                                                   *)

Flags == {"Y", "N"}

FlagArgs == {MkArgs("M", "lin", rt, rw, DefaultRanges) : rt \in Flags, rw \in Flags}

InitFlags ==
    /\ Unconstructed
    /\ probe = ProbeRun
    /\ plant = MkPlant("M", {"ncep2", "merra2", "erai"}, 12, MaxMonths, MaxMonths, NoHole, {})
    /\ npState = 0
    /\ pyState = 0

\* an engine is constructed with a combination of the flags, the generator seeded or not, and
\* the engine run once
NextFlags ==
    \/ \E a \in FlagArgs : Construct(a)
    \/ \E k \in Seeds : results = NoResults /\ pc = "idle" /\ probe.seeded # k /\ Seed(k)
    \/ \E n \in 1..MaxSim, subset \in Subsets : results = NoResults /\ Run(n, subset)
    \/ RunLongTermLosses
    \/ RunSetup
    \/ Iteration
    \/ StoreResults

SpecFlags == InitFlags /\ [][NextFlags]_vars

-----------------------------------------------------------------------------
(* Claims about the annualization of the long-term losses *)

\* the calendar keys of a complete long-term year
CalendarKeys(tr) ==
    IF tr = "M" THEN 1..12 ELSE {<<m, d>> : m \in 1..12, d \in 1..31} \ 
                                ({<<2, 30>>, <<2, 31>>} \cup {<<m, 31>> : m \in {4, 6, 9, 11}})

\* the mean of a loss column over the rows of a calendar key that are flagged typical
PeriodMean(key, flag, col) ==
    LET tr == args.time_resolution
        idx == {i \in 1..Len(monthly_daily) :
                    /\ CalendarKey(tr, monthly_daily[i]) = key
                    /\ monthly_daily[i][flag]
                    /\ isfinite(monthly_daily[i][col])}
    IN  SumOver([i \in idx |-> monthly_daily[i][col]], idx) \div Cardinality(idx)

\* the day table (31, 28.25, 31, 30, 31, 30, 31, 31, 30, 31, 30, 31) in quarters of a day
QuarterDays(m) == IF m = 2 THEN 113 ELSE 4 * daysinmonth(1, m)

\* a call of calculate_long_term_losses has just assigned the baseline
BaselineAssigned ==
    /\ pc = "idle"
    /\ steps = <<"calculate_long_term_losses">>
    /\ error = "none"

LossColumns == <<[flag |-> "availability_typical", col |-> "availability_pct"],
                 [flag |-> "curtailment_typical", col |-> "curtailment_pct"]>>

\* C21: in monthly mode the annualized loss is the sum over the 12 calendar months of (mean loss
\* of the month x days of the month in the table 31, 28.25, 31, ...) divided by 365.25; in daily
\* mode it is the plain sum of the 366 calendar-day means divided by 365.25.
C21_AnnualizedByDayTable ==
    BaselineAssigned =>
        \A c \in 1..2 :
            LET tr == args.time_resolution
                mean == [key \in CalendarKeys(tr) |->
                            Fin(PeriodMean(key, LossColumns[c].flag, LossColumns[c].col))]
            IN  long_term_losses[c] =
                    IF tr = "M"
                    THEN SumOver([m \in 1..12 |-> Fin(Val(mean[m]) * QuarterDays(m))], 1..12) \div 1461
                    ELSE (4 * SumOver([m \in 1..12 |->
                                         Fin(SumOver(mean, {key \in CalendarKeys(tr) : key[1] = m}))],
                                      1..12)) \div 1461

\* C21 witness: a baseline was assigned from a monthly table whose months differ in their losses
C21_Witness ==
    /\ BaselineAssigned
    /\ args.time_resolution = "M"
    /\ long_term_losses[1] > 0 /\ long_term_losses[2] > 0
    /\ PeriodMean(1, "availability_typical", "availability_pct")
          # PeriodMean(2, "availability_typical", "availability_pct")

\* a baseline was assigned from a daily table
C21_DailyAssigned ==
    /\ BaselineAssigned
    /\ args.time_resolution = "D"
    /\ long_term_losses[1] > 0

\* C26: the annualized loss lies between the smallest and the largest calendar-period mean, in
\* monthly and in daily mode; when every period has the same mean c it equals c.
C26_WithinPeriodMeans ==
    BaselineAssigned =>
        \A c \in 1..2 :
            LET keys == CalendarKeys(args.time_resolution)
                mean == [key \in keys |-> PeriodMean(key, LossColumns[c].flag, LossColumns[c].col)]
            IN  /\ \E key \in keys : mean[key] <= long_term_losses[c]
                /\ \E key \in keys : long_term_losses[c] <= mean[key]

\* the baseline of a daily table whose every calendar day has the same mean availability loss is
\* above that loss
C26_DailyAboveEveryMean ==
    /\ BaselineAssigned
    /\ args.time_resolution = "D"
    /\ \A key \in CalendarKeys("D") :
          PeriodMean(key, "availability_typical", "availability_pct") = 500
    /\ long_term_losses[1] > 500

\* the baseline of a monthly table whose every calendar month has the same mean availability
\* loss is that loss
C26_MonthlyEqualsTheMean ==
    /\ BaselineAssigned
    /\ args.time_resolution = "M"
    /\ \A key \in CalendarKeys("M") :
          PeriodMean(key, "availability_typical", "availability_pct") = 500
    /\ long_term_losses[1] = 500

-----------------------------------------------------------------------------
(* Claims about the trimming of the monthly table *)

\* the constructor ran trim_monthly_df
Trimmed == pc # "new" /\ \E i \in 1..Len(steps) : steps[i] = "trim_monthly_df"

\* the raw data of the month were incomplete: its expected and actual day counts differ
PartialMonth(o) ==
    /\ plant.meter_freq \notin {"1MS", "1M"}
    /\ num_days(plant, o) # daysinmonth(MonthYear(o), MonthOfYear(o))

FirstMonth == plant.meter_start

LastMonth == plant.meter_start + plant.meter_len - 1

\* the row of the month has its gross energy and the three required wind speeds
FiniteMonth(o) ==
    /\ CurtailCovers(plant, o)
    /\ ReanalysisCovers(plant, o)
    /\ \A p \in FiniteChecked : ~Missing(plant, p, o)

MonthsKept == {monthly_daily[i].ord : i \in 1..Len(monthly_daily)}

\* C22: trimming removes the first row iff its expected and actual day counts differ, the last
\* row iff its counts differ, and no other row; a row that has become the first or the last by
\* a removal is not examined.  (The constructor then drops the rows with a non-finite value.)
C22_OnlyPartialBoundaryMonthsTrimmed ==
    Trimmed =>
        \A i \in 1..plant.meter_len :
            LET o == plant.meter_start + i - 1
                trimmed == \/ o = FirstMonth /\ PartialMonth(o)
                           \/ o = LastMonth /\ PartialMonth(o)
            IN  CASE error = "none" /\ pc = "idle" -> (o \in MonthsKept <=> (~trimmed /\ FiniteMonth(o)))
                  [] error = "AttributeError" -> (o \in MonthsKept <=> ~trimmed)
                  [] OTHER -> (o = FirstMonth /\ trimmed => o \notin MonthsKept)
                              /\ (o \notin {FirstMonth, LastMonth} => o \in MonthsKept)

\* C22 witness: the first two months of a year of data were partial; the first was removed, the
\* second has become the first row and is kept
C22_Witness ==
    /\ Trimmed
    /\ pc = "idle"
    /\ plant.meter_len = 12
    /\ PartialMonth(FirstMonth) /\ PartialMonth(FirstMonth + 1)
    /\ FirstMonth \notin MonthsKept
    /\ monthly_daily[1].ord = FirstMonth + 1
    /\ monthly_daily[1].num_days_expected # monthly_daily[1].num_days_actual
    /\ Len(monthly_daily) = 11

\* both boundary months of a year of data were partial and removed
C22_BothBoundariesTrimmed ==
    /\ Trimmed
    /\ pc = "idle"
    /\ plant.meter_len = 12
    /\ PartialMonth(FirstMonth) /\ PartialMonth(LastMonth)
    /\ Len(monthly_daily) = 10

\* C29: trim_monthly_df raises on no table that has a row; on a table of a single row whose
\* expected and actual day counts differ it removes that row once and leaves an empty table.
C29_TrimNeverRaises ==
    (Trimmed /\ plant.meter_len >= 1) =>
        /\ error \notin {"KeyError", "IndexError"}
        /\ (plant.meter_len = 1 /\ PartialMonth(FirstMonth)) =>
              (monthly_daily = <<>> /\ pc = "idle")

\* the constructor of a plant with a single, partial month failed with a KeyError raised by
\* trim_monthly_df, after the row was removed
C29_SingleRowRaises ==
    /\ Trimmed
    /\ plant.meter_len = 1
    /\ PartialMonth(FirstMonth)
    /\ pc = "ctor_error"
    /\ error = "KeyError"
    /\ steps[Len(steps)] = "trim_monthly_df"
    /\ monthly_daily = <<>>

-----------------------------------------------------------------------------
(* Claims about the sampled reanalysis products *)

\* the number of simulations assigned to a product
Assigned(p) == Cardinality({i \in 1..Len(mc.reanalysis_product) : mc.reanalysis_product[i] = p})

SubsetProducts == {reanal_subset[i] : i \in 1..Len(reanal_subset)}

\* C24: the sampled product array has exactly N entries, each a member of the product list
\* passed to run(); the share of a product is not fixed (any count from 0 to N can occur, also
\* when the number of products divides N: see the reachable states below).
C24_ProductsFromTheList ==
    pc = "loop" =>
        /\ Len(mc.reanalysis_product) = num_sim
        /\ \A i \in 1..num_sim : mc.reanalysis_product[i] \in SubsetProducts
        /\ \A p \in SubsetProducts : Assigned(p) \in 0..num_sim

\* C24 witness: two simulations over a list of two products, both assigned to the same product
C24_Witness ==
    /\ pc = "loop"
    /\ num_sim = 2
    /\ Len(reanal_subset) = 2
    /\ \E p \in SubsetProducts : Assigned(p) = 2
    /\ \E p \in SubsetProducts : Assigned(p) = 0

\* two simulations over a list of two products, one assigned to each
C24_EqualShares ==
    /\ pc = "loop"
    /\ num_sim = 2
    /\ Len(reanal_subset) = 2
    /\ \A p \in SubsetProducts : Assigned(p) = 1

-----------------------------------------------------------------------------
(* Claims about the key of the memo dictionary *)

-----------------------------------------------------------------------------
(* Claims about the long-term window *)

\* a direct call of sample_long_term_reanalysis has just ended
LongTermCalled == pc = "idle" /\ steps = <<"sample_long_term_reanalysis">>

\* the periods for which product r has a wind speed
RecordsOf(r) ==
    {reanalysis_monthly_daily.start + i - 1 : i \in
        {j \in 1..reanalysis_monthly_daily.len : isfinite(reanalysis_monthly_daily.cols[<<r, "">>][j])}}

\* the last `count` of them, or all of them when there are fewer
LastRecords(r, count) ==
    {o \in RecordsOf(r) : Cardinality({q \in RecordsOf(r) : q > o}) < count}

FiniteRows(rows) == {j \in 1..Len(rows) : rows[j][1] # NaN}

\* C23: sample_long_term_reanalysis(n, r) builds the long-term averages from the last n*12
\* (monthly) or n*366 (daily) non-missing records of r, or from all of them when there are
\* fewer, and raises no error.
C23_ShortWindowNoError ==
    LongTermCalled =>
        LET monthly == args.time_resolution = "M"
            window == LastRecords(probe.lt.r, probe.lt.n * (IF monthly THEN 12 ELSE 366))
        IN  /\ error = "none"
            /\ monthly => Len(probe.lt.rows) = Cardinality({MonthOfYear(o) : o \in window})
            /\ ~monthly => Cardinality(FiniteRows(probe.lt.rows))
                              <= Cardinality({LeapDayIndex(o) : o \in window})

\* a call in monthly mode for more years than the product has data returned the averages of the
\* records there are, without an error
C23_MonthlyShorterWindow ==
    /\ LongTermCalled
    /\ args.time_resolution = "M"
    /\ Cardinality(RecordsOf(probe.lt.r)) < probe.lt.n * 12
    /\ error = "none"
    /\ Len(probe.lt.rows) = Cardinality(RecordsOf(probe.lt.r))

\* a call in daily mode for a product with 60 days of data raised
C23_DailyShortWindowRaised ==
    /\ LongTermCalled
    /\ args.time_resolution = "D"
    /\ Cardinality(RecordsOf(probe.lt.r)) = 60
    /\ error = "ValueError"

\* C28: in daily mode, for every window length n >= 1, sample_long_term_reanalysis returns one
\* finite wind speed for each of the 366 calendar days, whether or not the window has a
\* 29 February.
C28_OneFiniteValuePerCalendarDay ==
    (LongTermCalled /\ args.time_resolution = "D" /\ Cardinality(RecordsOf(probe.lt.r)) >= 366) =>
        /\ error = "none"
        /\ Len(probe.lt.rows) = 366
        /\ FiniteRows(probe.lt.rows) = 1..366

\* a call on a window of 366 daily records without a 29 February returned 365 finite values and
\* an undefined one in the last place
C28_LastDayUndefined ==
    /\ LongTermCalled
    /\ args.time_resolution = "D"
    /\ probe.lt.n = 1
    /\ \A o \in LastRecords(probe.lt.r, 366) : LeapDayIndex(o) # 60
    /\ error = "none"
    /\ FiniteRows(probe.lt.rows) = 1..365

\* a call on a window with a 29 February returned 366 finite values
C28_LeapWindowComplete ==
    /\ LongTermCalled
    /\ args.time_resolution = "D"
    /\ \E o \in LastRecords(probe.lt.r, probe.lt.n * 366) : LeapDayIndex(o) = 60
    /\ FiniteRows(probe.lt.rows) = 1..366

-----------------------------------------------------------------------------
(* Claims about the order of the regression channels *)

\* wind speed, then temperature, then the sine and the cosine of the direction, for the
\* channels that the flags enable
ChannelOrder(a) ==
    SelectSeq(<<"ws", "temp", "wd_sin", "wd_cos">>,
              LAMBDA c : \/ c = "ws"
                         \/ c = "temp" /\ a.reg_temperature = "Y"
                         \/ c \in {"wd_sin", "wd_cos"} /\ a.reg_winddirection = "Y")

\* the iterations of the current run that have completed
Completed == IF pc = "loop" THEN {loop.log[i] : i \in 1..Len(loop.log)} ELSE {}

\* the period-of-record gross energy of iteration n when coefficient i multiplies channel i of
\* the fit
PorGrossInFitOrder(n) ==
    LET months == DOMAIN reanalysis_por_avg
    IN  AnnualGross(mc.slope[n + 1], Val(mc.intercept[n + 1]),
                    [j \in 1..Cardinality(months) |->
                        [i \in 1..Len(ChannelOrder(args)) |->
                            Channel(reanalysis_por_avg[NthMonth(months, j)],
                                    mc.reanalysis_product[n + 1], ChannelOrder(args)[i])]],
                    1)

\* C27: for each combination of the temperature and wind direction flags the channels are in the
\* order wind speed, temperature, sine, cosine in the fitted matrix, in the long-term inputs and
\* in the coefficient indices applied to the period-of-record averages, so that coefficient i
\* multiplies the channel it was fitted on, and the slope vector has
\* 1 + (temperature) + 2 x (wind direction) entries.
C27_SameChannelOrder ==
    pc \in {"idle", "losses", "setup", "loop"} =>
        /\ reg_inputs_columns(args) = ChannelOrder(args)
        /\ long_term_reg_inputs_columns(args) = ChannelOrder(args)
        /\ gross_norm_por_terms(args) = ChannelOrder(args)
        /\ \A n \in Completed :
              /\ Len(mc.slope[n + 1]) = 1 + (IF args.reg_temperature = "Y" THEN 1 ELSE 0)
                                          + (IF args.reg_winddirection = "Y" THEN 2 ELSE 0)
              /\ loop.gross_por[n + 1] = Fin(PorGrossInFitOrder(n))

\* a run with the temperature and the wind direction has completed an iteration whose fit has a
\* coefficient for the sine that differs from the one for the cosine
C27_Witness ==
    /\ 0 \in Completed
    /\ args.reg_temperature = "Y"
    /\ args.reg_winddirection = "Y"
    /\ Len(mc.slope[1]) = 4
    /\ mc.slope[1][3] # mc.slope[1][4]

\* runs with the temperature alone and with the wind direction alone have completed
C27_TemperatureOnly ==
    0 \in Completed /\ args.reg_temperature = "Y" /\ args.reg_winddirection = "N" /\ Len(mc.slope[1]) = 2

C27_WindDirectionOnly ==
    0 \in Completed /\ args.reg_temperature = "N" /\ args.reg_winddirection = "Y" /\ Len(mc.slope[1]) = 3

-----------------------------------------------------------------------------
(* Claims about the diagnostic arrays of the sampler *)

\* the last step has ended a run without an error
RunCompleted == pc = "loop" /\ pc' = "idle" /\ error' = "none"

\* iteration n assigns entry n of the arrays in `names`, which was unassigned, and after the last
\* iteration no entry of these arrays is unassigned
AssignedOnceByItsIteration(names) ==
    /\ \A n \in 0..(MaxSim - 1) :
          (IterationStep(n) /\ pc' = "loop") =>
              \A name \in names :
                  /\ mc[name][n + 1] = Unassigned
                  /\ mc'[name][n + 1] # Unassigned
                  /\ \A i \in 1..num_sim : i # n + 1 => mc'[name][i] = mc[name][i]
    /\ RunCompleted =>
          \A name \in names : \A i \in 1..num_sim : mc[name][i] # Unassigned

\* C30: after a completed run, for every regression model, every entry n of the slope, intercept,
\* sample count, R-squared and mean squared error arrays has been assigned exactly once, by
\* iteration n, and none holds its allocation value.
C30_AllDiagnosticsAssigned ==
    [][AssignedOnceByItsIteration(DiagnosticArrays)]_vars

\* C30 as amended: with the linear model every entry n of the five arrays is assigned exactly
\* once, by iteration n; with the other models this holds for the sample count, R-squared and
\* mean squared error, and the slope and intercept keep their allocation values.
C30_DiagnosticsOfTheModelAssigned ==
    [][pc = "loop" =>
          IF args.reg_model = "lin"
          THEN AssignedOnceByItsIteration(DiagnosticArrays)
          ELSE /\ AssignedOnceByItsIteration({"num_points", "r2_score", "mse_score"})
               /\ (pc' = "loop" \/ RunCompleted) =>
                     \A i \in 1..num_sim :
                         mc'.slope[i] = Unassigned /\ mc'.intercept[i] = Unassigned]_vars

\* C30 witness: a run of two iterations with a machine-learning model has completed; sample
\* count, R-squared and mean squared error of both are recorded, slope and intercept of neither
C30_Witness ==
    /\ pc = "idle"
    /\ error = "none"
    /\ results # NoResults
    /\ args.reg_model # "lin"
    /\ num_sim = 2
    /\ \A i \in 1..2 :
          /\ \A name \in {"num_points", "r2_score", "mse_score"} : mc[name][i] # Unassigned
          /\ mc.slope[i] = Unassigned
          /\ mc.intercept[i] = Unassigned

\* a run of two iterations with the linear model has completed with all five recorded
C30_LinearComplete ==
    /\ pc = "idle"
    /\ error = "none"
    /\ results # NoResults
    /\ args.reg_model = "lin"
    /\ num_sim = 2
    /\ \A i \in 1..2 : \A name \in DiagnosticArrays : mc[name][i] # Unassigned

====
